---- MODULE Spec2Model ----
(***************************************************************************)
(* Model of the SOP -> BPMN pipeline: the LangGraph orchestration of       *)
(* main.py (clarification -> structure_sop -> validate_sop ->              *)
(* generate_report), the retry decorators around the three LLM calls, the  *)
(* code-level structural validator, and the layout / XML generation of     *)
(* bpmn_engineer_agent.                                                     *)
(*                                                                         *)
(* Text (ids, labels, conditions, titles) is a sequence of character codes.*)
(* An Optional value is None or Some(v).  A number that Python holds as a  *)
(* float is [v |-> whole value, fl |-> TRUE].                               *)
(***************************************************************************)
EXTENDS Integers, Sequences, FiniteSets, TLC

VARIABLES
    state,          \* GraphState: the dict LangGraph threads through the agents
    node,           \* the LangGraph node about to run, "END", or "crashed"
    attempt,        \* failed tries so far of the @retry call active in this node
    log,            \* history: the stage last active, its LLM calls so far, the kind of the last response
    entries,        \* history: how many times structure_sop was entered (saturating)
    rejects,        \* history: how many times validate_sop rejected the graph (saturating)
    structRejected, \* history: some rejection came from the code validator
    accepted,       \* history: the graph the auditor last accepted
    lastGen,        \* history: the graph the generator last produced
    allSame,        \* history: every graph generated so far is the same graph
    firstDoc,       \* history: the document of the first of two compilations
    queue,          \* bpmn_engineer_agent: q, the work queue of the layout loop
    visited_coords, \* bpmn_engineer_agent: the placements, in insertion order
    pushed,         \* history: how many entries were ever put on the queue
    prompt,         \* history: the prompt last sent to the GraphGenerator
    namespace_map,  \* ElementTree's registry of prefixes, one per process
    runs,           \* two runs in one process: GraphState, node and tries of each
    solo            \* the same two runs, each alone in a process of its own

vars == <<state, node, attempt, log, entries, rejects, structRejected,
          accepted, lastGen, allSame, firstDoc, queue, visited_coords, pushed, prompt, namespace_map, runs, solo>>

-----------------------------------------------------------------------------
(* Bounds of the model *)

MaxEntries == 4      \* the history counters saturate here
NSeeds == 2          \* how many distinct uuid4 streams a compilation may draw from
ExtraLen == 0        \* how far a generated text may exceed a minimum length

-----------------------------------------------------------------------------
(* Optional values and text *)

None == [some |-> FALSE]
Some(x) == [some |-> TRUE, v |-> x]

\* Python truthiness of an Optional[str] held in the state: a generated text
\* carries its length, every other text of the model is a non-empty literal.
Truthy(o) == o.some /\ (IF o.v.kind \in {"description", "audit"} THEN o.v.len > 0 ELSE TRUE)

Min(a, b) == IF a < b THEN a ELSE b

tS == <<115>>
tA == <<97>>
tB == <<98>>
tC == <<99>>
tE == <<101>>
tG == <<103>>
tZ == <<122>>
tOui == <<79, 117, 105>>
tNon == <<78, 111, 110>>
tTitleT == <<84>>
tTitleL == <<76>>
tLabelAmp == <<65, 32, 38, 32, 66, 32, 60, 100, 111, 110, 101, 62>>   \* "A & B <done>"
tEmpty == <<>>
tADi == <<97, 95, 100, 105>>          \* "a_di"
tQ == <<113>>
tLabelQuote == <<34, 97, 39>>         \* the three characters " a '
tCondLt == <<39, 60>>                 \* the two characters ' <
tTitleAmp == <<38>>

\* Lexicographic order of Python str comparison.
RECURSIVE StrLess(_, _)
StrLess(a, b) ==
    IF b = <<>> THEN FALSE
    ELSE IF a = <<>> THEN TRUE
    ELSE IF Head(a) # Head(b) THEN Head(a) < Head(b)
    ELSE StrLess(Tail(a), Tail(b))

-----------------------------------------------------------------------------
(* state.py: the schemas *)

NodeTypes == {"task", "gateway", "startEvent", "endEvent"}

MinDescriptionLen == 20
MinReasonLen == 10

ProcessNode(id, type, label) == [id |-> id, type |-> type, label |-> label]
ProcessFlow(s, t, c) == [source_id |-> s, target_id |-> t, condition |-> c]

\* A JSON object as the generator may write it; obj names the keys it carries.
GraphJson(titre, nodes, flows) ==
    [obj |-> "ProcessGraph", titre |-> titre, nodes |-> nodes, flows |-> flows]
AuditJson(is_logical, len) ==
    [obj |-> "AuditResult", is_logical |-> is_logical,
     reason |-> [kind |-> "audit", len |-> len]]
OtherJson == [obj |-> "other"]

\* ProcessGraph.model_validate_json / ProcessGraph(**d): the three keys and the node type Literal.
ProcessGraphValid(j) ==
    /\ j.obj = "ProcessGraph"
    /\ \A i \in 1..Len(j.nodes) : j.nodes[i].type \in NodeTypes

\* AuditResult.model_validate_json: is_logical a bool, reason of at least 10 characters.
AuditResultValid(j) ==
    /\ j.obj = "AuditResult"
    /\ j.reason.len >= MinReasonLen

\* refusal_phrases of validate_content
tJeNePeuxPas == <<106, 101, 32, 110, 101, 32, 112, 101, 117, 120, 32, 112, 97, 115>>
tJeNeSuisPasCapable ==
    <<106, 101, 32, 110, 101, 32, 115, 117, 105, 115, 32, 112, 97, 115, 32, 99, 97, 112, 97, 98, 108, 101>>
tEnTantQueModele ==
    <<101, 110, 32, 116, 97, 110, 116, 32, 113, 117, 101, 32, 109, 111, 100, 232, 108, 101, 32, 100, 101, 32, 108, 97, 110, 103, 97, 103, 101>>
refusal_phrases == {tJeNePeuxPas, tJeNeSuisPasCapable, tEnTantQueModele}

\* str.lower() of one character: A-Z and the capital letters of Latin-1
LowerChar(c) ==
    IF (c >= 65 /\ c <= 90) \/ (c >= 192 /\ c <= 222 /\ c # 215) THEN c + 32 ELSE c

\* str.lower()
lower(t) == [i \in 1..Len(t) |-> LowerChar(t[i])]

\* phrase in text
In(phrase, t) ==
    \E i \in 0..(Len(t) - Len(phrase)) : SubSeq(t, i + 1, i + Len(phrase)) = phrase

\* Variant: the phrases are looked for in the description as it is written.
validate_content_cased(d) == \A phrase \in refusal_phrases : ~In(phrase, d.excerpt)

\* validate_content: TRUE when it returns, FALSE when it raises ValueError
validate_content(d) ==
    LET lower_description == lower(d.excerpt)
    IN  \A phrase \in refusal_phrases : ~In(phrase, lower_description)

\* ClarificationOutput(description=...) then validate_content().
ClarificationOutputValid(d) ==
    /\ d.len >= MinDescriptionLen
    /\ validate_content(d)

-----------------------------------------------------------------------------
(* The graphs the generator may answer with *)

nS == ProcessNode(tS, "startEvent", tS)
nA == ProcessNode(tA, "task", tLabelAmp)
nB == ProcessNode(tB, "task", tB)
nC == ProcessNode(tC, "task", tC)
nE == ProcessNode(tE, "endEvent", tE)
nG == ProcessNode(tG, "gateway", tG)

\* start -> a -> g -> {b (Oui), c (Non)} -> end
GraphE2E ==
    GraphJson(tTitleT, <<nS, nA, nG, nB, nC, nE>>,
        <<ProcessFlow(tS, tA, None), ProcessFlow(tA, tG, None),
          ProcessFlow(tG, tB, Some(tOui)), ProcessFlow(tG, tC, Some(tNon)),
          ProcessFlow(tB, tE, None), ProcessFlow(tC, tE, None)>>)

\* start -> a -> end
GraphLinear ==
    GraphJson(tTitleL, <<nS, nA, nE>>,
        <<ProcessFlow(tS, tA, None), ProcessFlow(tA, tE, None)>>)

\* a gateway with a single outgoing flow
GraphBadGateway ==
    GraphJson(tTitleT, <<nS, nG, nE>>,
        <<ProcessFlow(tS, tG, None), ProcessFlow(tG, tE, Some(tOui))>>)

\* nodes but no flows
GraphNoFlows == GraphJson(tTitleT, <<nS, nE>>, <<>>)

\* no startEvent
GraphNoStart ==
    GraphJson(tTitleL, <<nA, nE>>, <<ProcessFlow(tA, tE, None)>>)

\* node b is not reachable from start and has a flow of its own
GraphUnreachable ==
    GraphJson(tTitleL, <<nS, nA, nB, nE>>,
        <<ProcessFlow(tS, tA, None), ProcessFlow(tA, tE, None),
          ProcessFlow(tB, tE, None)>>)

\* node b has no flow at all
GraphIsolated ==
    GraphJson(tTitleL, <<nS, nA, nB, nE>>,
        <<ProcessFlow(tS, tA, None), ProcessFlow(tA, tE, None)>>)

\* a flow whose target is no node
GraphBadTarget ==
    GraphJson(tTitleL, <<nS, nA, nE>>,
        <<ProcessFlow(tS, tA, None), ProcessFlow(tA, tZ, None)>>)

\* a flow whose source is no node
GraphBadSource ==
    GraphJson(tTitleL, <<nS, nA, nE>>,
        <<ProcessFlow(tS, tA, None), ProcessFlow(tA, tE, None),
          ProcessFlow(tZ, tE, None)>>)

\* a cycle a -> g -> a, and the end reached from g
GraphCycle ==
    GraphJson(tTitleT, <<nS, nA, nG, nE>>,
        <<ProcessFlow(tS, tA, None), ProcessFlow(tA, tG, None),
          ProcessFlow(tG, tA, Some(tNon)), ProcessFlow(tG, tE, Some(tOui))>>)

\* a node whose id is the id of another node followed by "_di"
GraphDiSuffix ==
    GraphJson(tTitleL, <<nS, nA, ProcessNode(tADi, "task", tB), nE>>,
        <<ProcessFlow(tS, tA, None), ProcessFlow(tA, tADi, None),
          ProcessFlow(tADi, tE, None)>>)

\* two nodes with the id a
GraphDupIds ==
    GraphJson(tTitleL, <<nS, nA, ProcessNode(tA, "gateway", tB), nE>>,
        <<ProcessFlow(tS, tA, None), ProcessFlow(tA, tE, None)>>)

\* quotes, an apostrophe, "<" and "&" in the label, the condition and the title
GraphQuotes ==
    GraphJson(tTitleAmp, <<nS, ProcessNode(tQ, "task", tLabelQuote), nE>>,
        <<ProcessFlow(tS, tQ, None), ProcessFlow(tQ, tE, Some(tCondLt))>>)

\* GraphE2E with the flow "Non" written before the flow "Oui"
GraphE2ESwapped ==
    GraphJson(tTitleT, <<nS, nA, nG, nC, nB, nE>>,
        <<ProcessFlow(tS, tA, None), ProcessFlow(tA, tG, None),
          ProcessFlow(tG, tC, Some(tNon)), ProcessFlow(tG, tB, Some(tOui)),
          ProcessFlow(tC, tE, None), ProcessFlow(tB, tE, None)>>)

\* the end event is reached from the gateway and, one column later, from task a
GraphCrossEdge ==
    GraphJson(tTitleT, <<nS, nG, nA, nE>>,
        <<ProcessFlow(tS, tG, None), ProcessFlow(tG, tA, Some(tNon)),
          ProcessFlow(tG, tE, Some(tOui)), ProcessFlow(tA, tE, None)>>)

\* a gateway whose four flows have the conditions "Oui", none, "" and "Non"
GraphSortKeys ==
    GraphJson(tTitleT, <<nS, nG, nA, nB, nC, nE>>,
        <<ProcessFlow(tS, tG, None),
          ProcessFlow(tG, tB, Some(tOui)), ProcessFlow(tG, tA, None),
          ProcessFlow(tG, tC, Some(tEmpty)), ProcessFlow(tG, tE, Some(tNon))>>)

\* a gateway with two flows "Oui" and a flow "Non" between them
GraphSortTies ==
    GraphJson(tTitleT, <<nS, nG, nA, nB, nE>>,
        <<ProcessFlow(tS, tG, None),
          ProcessFlow(tG, tB, Some(tOui)), ProcessFlow(tG, tE, Some(tNon)),
          ProcessFlow(tG, tA, Some(tOui))>>)

\* the graphs the generator answers with in a run
GraphPool == {GraphE2E, GraphLinear, GraphBadGateway, GraphNoFlows, GraphNoStart}

\* the graphs generate_report is exercised on
CompilePool ==
    GraphPool \cup {GraphUnreachable, GraphIsolated, GraphBadTarget, GraphCycle,
                     GraphDiSuffix, GraphDupIds, GraphQuotes, GraphE2ESwapped, GraphCrossEdge,
                     GraphBadSource}

\* a node type outside the Literal: rejected by the schema
GraphBadType ==
    GraphJson(tTitleT, <<nS, ProcessNode(tA, "subProcess", tA), nE>>,
        <<ProcessFlow(tS, tA, None), ProcessFlow(tA, tE, None)>>)

-----------------------------------------------------------------------------
(* What an LLM call may produce: RuntimeError (llm.py, status code # 200), or a
   raw text.  A raw text is a sequence of tokens: an opening brace, a closing
   brace, other text, or the body of a JSON object. *)

LB == [t |-> "{"]
RB == [t |-> "}"]
TXT == [t |-> "txt"]
Body(j) == [t |-> "body", v |-> j]

CallFailed == [err |-> TRUE]
Raw(text) == [err |-> FALSE, text |-> text]

\* the JSON object alone; with text around it; followed by text holding another brace pair
Plain(j) == <<LB, Body(j), RB>>
Wrapped(j) == <<TXT, LB, Body(j), RB, TXT>>
Trailing(j) == <<LB, Body(j), RB, TXT, LB, RB>>

\* every object of J alone, and one of them with text around it
RawTextsOf(J, j) == {<<TXT>>, Wrapped(j), Trailing(j)} \cup {Plain(x) : x \in J}

GraphResponses ==
    {CallFailed} \cup
    {Raw(x) : x \in RawTextsOf(GraphPool \cup {GraphBadType, OtherJson}, GraphLinear)}

ReasonLens == {MinReasonLen - 1} \cup (MinReasonLen..(MinReasonLen + ExtraLen))

AuditPool == {AuditJson(b, n) : b \in BOOLEAN, n \in ReasonLens}

AuditResponses ==
    {CallFailed} \cup
    {Raw(x) : x \in RawTextsOf(AuditPool \cup {OtherJson}, AuditJson(TRUE, MinReasonLen))}

DescriptionLens ==
    {0, MinDescriptionLen - 1} \cup (MinDescriptionLen..(MinDescriptionLen + ExtraLen))

\* A description of n characters; excerpt is the part of it in which a
\* refusal phrase may stand.
Description(n, excerpt) == [kind |-> "description", len |-> n, excerpt |-> excerpt]

tJE_NE_PEUX_PAS == <<74, 69, 32, 78, 69, 32, 80, 69, 85, 88, 32, 80, 65, 83>>
tEnTantQueModeleCapitals ==
    <<69, 110, 32, 84, 97, 110, 116, 32, 81, 117, 101, 32, 77, 111, 100, 232, 108, 101, 32, 68, 101, 32, 76, 97, 110, 103, 97, 103, 101>>

\* nothing of the kind, each refusal phrase, and two written with capitals
Excerpts == {tEmpty} \cup refusal_phrases \cup {tJE_NE_PEUX_PAS, tEnTantQueModeleCapitals}

TextResponses ==
    {CallFailed} \cup
    {[err |-> FALSE, text |-> Description(n, e)] :
        <<n, e>> \in {x \in (DescriptionLens \cup {Len(e) : e \in Excerpts}) \X Excerpts :
                         x[1] \in DescriptionLens \cup {Len(x[2])} /\ Len(x[2]) <= x[1]}}

-----------------------------------------------------------------------------
(* extract_json_from_response: re.search(r'\{.*\}', text, re.DOTALL) *)

Positions(text, tok) == {i \in 1..Len(text) : text[i] = tok}

SetMin(S) == CHOOSE x \in S : \A y \in S : x <= y
SetMax(S) == CHOOSE x \in S : \A y \in S : x >= y

\* The leftmost match starts at the first "{"; ".*" is greedy and DOTALL, so the
\* match runs to the last "}" after it.  No match: None.
extract_json_from_response(text) ==
    LET opens == Positions(text, LB)
        first == SetMin(opens)
        closes == {i \in Positions(text, RB) : i > first}
    IN  IF opens = {} \/ closes = {} THEN None
        ELSE Some(SubSeq(text, first, SetMax(closes)))

\* The JSON parser inside model_validate_json: the string is one JSON object.
JsonParse(s) ==
    IF Len(s) = 3 /\ s[1] = LB /\ s[2].t = "body" /\ s[3] = RB
    THEN Some(s[2].v) ELSE None

-----------------------------------------------------------------------------
(* intelligent_validator_agent.py: validate_graph_with_code *)

Outgoing(flows, id) == {i \in 1..Len(flows) : flows[i].source_id = id}

\* the gateways with fewer than 2 outgoing flows, by position in nodes
BadGateways(g) ==
    {i \in 1..Len(g.nodes) :
        /\ g.nodes[i].type = "gateway"
        /\ Cardinality(Outgoing(g.flows, g.nodes[i].id)) < 2}

\* Variant: the gateways are looked at before the emptiness of the graph.
validate_graph_with_code_gateways_first(g) ==
    IF BadGateways(g) # {}
    THEN LET n == g.nodes[SetMin(BadGateways(g))]
         IN  [ok |-> FALSE,
              reason |-> [kind |-> "gateway", label |-> n.label, id |-> n.id,
                          count |-> Cardinality(Outgoing(g.flows, n.id))]]
    ELSE IF g.nodes = <<>> \/ g.flows = <<>>
    THEN [ok |-> FALSE, reason |-> [kind |-> "empty_graph"]]
    ELSE [ok |-> TRUE, reason |-> [kind |-> "valid"]]

\* Variant: only the first gateway of the graph is looked at.
validate_graph_with_code_first(g) ==
    LET gws == {i \in 1..Len(g.nodes) : g.nodes[i].type = "gateway"}
    IN  IF g.nodes = <<>> \/ g.flows = <<>>
        THEN [ok |-> FALSE, reason |-> [kind |-> "empty_graph"]]
        ELSE IF gws # {} /\ SetMin(gws) \in BadGateways(g)
        THEN LET n == g.nodes[SetMin(gws)]
             IN  [ok |-> FALSE,
                  reason |-> [kind |-> "gateway", label |-> n.label, id |-> n.id,
                              count |-> Cardinality(Outgoing(g.flows, n.id))]]
        ELSE [ok |-> TRUE, reason |-> [kind |-> "valid"]]

validate_graph_with_code(g) ==
    IF g.nodes = <<>> \/ g.flows = <<>>
    THEN [ok |-> FALSE, reason |-> [kind |-> "empty_graph"]]
    ELSE IF BadGateways(g) # {}
    THEN LET n == g.nodes[SetMin(BadGateways(g))]
         IN  [ok |-> FALSE,
              reason |-> [kind |-> "gateway", label |-> n.label, id |-> n.id,
                          count |-> Cardinality(Outgoing(g.flows, n.id))]]
    ELSE [ok |-> TRUE, reason |-> [kind |-> "valid"]]

-----------------------------------------------------------------------------
(* The @retry decorators and the functions they wrap *)

\* One call of a decorated function ends in a value or in an exception.
Value(x) == [exc |-> "none", value |-> x]
Raise(e) == [exc |-> e]

\* @retry(InvalidDescriptionError, tries=3, delay=2)
ClarifyRetry == [exceptions |-> {"InvalidDescriptionError"}, tries |-> 3]
\* Variant: the generator is given one try fewer.
StructureRetryTwoTries ==
    [exceptions |-> {"InvalidProcessGraphError", "RuntimeError"}, tries |-> 2]

\* @retry((InvalidProcessGraphError, RuntimeError), tries=3, delay=2, backoff=2)
StructureRetry == [exceptions |-> {"InvalidProcessGraphError", "RuntimeError"}, tries |-> 3]
\* Variant: the auditor is given three tries.
AuditRetryThreeTries ==
    [exceptions |-> {"InvalidAuditResponseError", "RuntimeError"}, tries |-> 3]

\* @retry((InvalidAuditResponseError, RuntimeError), tries=2, delay=2, backoff=2)
AuditRetry == [exceptions |-> {"InvalidAuditResponseError", "RuntimeError"}, tries |-> 2]

\* What the decorator does with the result of try number failed + 1: hand the
\* value back, call again, or let the exception out.
Retry(policy, res, failed) ==
    IF res.exc = "none" THEN "return"
    ELSE IF res.exc \in policy.exceptions /\ failed + 1 < policy.tries THEN "retry"
    ELSE "raise"

generate_and_validate_description(r) ==
    IF r.err THEN Raise("RuntimeError")
    ELSE IF ClarificationOutputValid(r.text) THEN Value(r.text)
    ELSE Raise("InvalidDescriptionError")

generate_and_validate_process_graph(r) ==
    IF r.err THEN Raise("RuntimeError")
    ELSE LET json_string == extract_json_from_response(r.text)
         IN  IF ~json_string.some THEN Raise("InvalidProcessGraphError")
             ELSE LET j == JsonParse(json_string.v)
                  IN  IF j.some /\ ProcessGraphValid(j.v) THEN Value(j.v)
                      ELSE Raise("InvalidProcessGraphError")

get_llm_audit(r) ==
    IF r.err THEN Raise("RuntimeError")
    ELSE LET json_string == extract_json_from_response(r.text)
         IN  IF ~json_string.some THEN Raise("InvalidAuditResponseError")
             ELSE LET j == JsonParse(json_string.v)
                  IN  IF j.some /\ AuditResultValid(j.v) THEN Value(j.v)
                      ELSE Raise("InvalidAuditResponseError")

-----------------------------------------------------------------------------
(* The agents.  One step of an agent is one try of its decorated call (or an
   early return before it); the step ends in
     [kind |-> "update", upd, called]  the agent returns the dict upd,
     [kind |-> "retry"]                the decorator sleeps and calls again,
     [kind |-> "uncaught"]             an exception leaves the agent.        *)

Update(upd, called) == [kind |-> "update", upd |-> upd, called |-> called]
Again == [kind |-> "retry", called |-> TRUE]
Uncaught == [kind |-> "uncaught", called |-> TRUE]

ClarifyErrorText == [kind |-> "clarify_error"]

\* Variant: a description that stays invalid is handed on to structure_sop.
clarification_agent_goes_on(st, failed, r) ==
    LET res == generate_and_validate_description(r)
        d == Retry(ClarifyRetry, res, failed)
    IN  IF d = "return"
        THEN Update([general_response |-> Some(res.value),
                     next_action |-> Some("structure_sop")], TRUE)
        ELSE IF d = "retry" THEN Again
        ELSE IF res.exc = "InvalidDescriptionError"
        THEN Update([general_response |-> Some(ClarifyErrorText),
                     next_action |-> Some("structure_sop")], TRUE)
        ELSE Uncaught

clarification_agent(st, failed, r) ==
    LET res == generate_and_validate_description(r)
        d == Retry(ClarifyRetry, res, failed)
    IN  IF d = "return"
        THEN Update([general_response |-> Some(res.value),
                     next_action |-> Some("structure_sop")], TRUE)
        ELSE IF d = "retry" THEN Again
        ELSE IF res.exc = "InvalidDescriptionError"
        THEN Update([general_response |-> Some(ClarifyErrorText),
                     next_action |-> Some("end_with_error")], TRUE)
        ELSE Uncaught

\* Variant: a valid graph is sent on to generate_report.
sop_structure_agent_skips(st, failed, r) ==
    IF ~Truthy(st.general_response)
    THEN Update([structured_sop |-> None, next_action |-> Some("end_with_error")], FALSE)
    ELSE
    LET res == generate_and_validate_process_graph(r)
        d == Retry(StructureRetry, res, failed)
    IN  IF d = "return"
        THEN Update([structured_sop |-> Some(res.value),
                     correction_feedback |-> None,
                     next_action |-> Some("generate_report")], TRUE)
        ELSE IF d = "retry" THEN Again
        ELSE IF res.exc = "InvalidProcessGraphError"
        THEN Update([structured_sop |-> None,
                     next_action |-> Some("end_with_error")], TRUE)
        ELSE Uncaught

\* Variant: in correction mode the stored graph is kept instead of replaced.
sop_structure_agent_keeps(st, failed, r) ==
    IF ~Truthy(st.general_response)
    THEN Update([structured_sop |-> None, next_action |-> Some("end_with_error")], FALSE)
    ELSE
    LET res == generate_and_validate_process_graph(r)
        d == Retry(StructureRetry, res, failed)
    IN  IF d = "return"
        THEN Update([structured_sop |-> IF Truthy(st.correction_feedback)
                                        THEN st.structured_sop ELSE Some(res.value),
                     correction_feedback |-> None,
                     next_action |-> Some("validate_sop")], TRUE)
        ELSE IF d = "retry" THEN Again
        ELSE IF res.exc = "InvalidProcessGraphError"
        THEN Update([structured_sop |-> None,
                     next_action |-> Some("end_with_error")], TRUE)
        ELSE Uncaught

\* the prompt sop_structure_agent builds: the correction prompt quotes the
\* feedback, the failed graph and the description, the initial one the
\* description alone
StructurePrompt_initial(st) ==
    [mode |-> "initial", feedback |-> None, failed_graph |-> None,
     text |-> st.general_response]

StructurePrompt(st) ==
    IF Truthy(st.correction_feedback)
    THEN [mode |-> "correction", feedback |-> st.correction_feedback,
          failed_graph |-> st.structured_sop, text |-> st.general_response]
    ELSE [mode |-> "initial", feedback |-> None, failed_graph |-> None,
          text |-> st.general_response]

sop_structure_agent(st, failed, r) ==
    IF ~Truthy(st.general_response)
    THEN Update([structured_sop |-> None, next_action |-> Some("end_with_error")], FALSE)
    ELSE
    LET res == generate_and_validate_process_graph(r)
        d == Retry(StructureRetry, res, failed)
    IN  IF d = "return"
        THEN Update([structured_sop |-> Some(res.value),
                     correction_feedback |-> None,
                     next_action |-> Some("validate_sop")], TRUE)
        ELSE IF d = "retry" THEN Again
        ELSE IF res.exc = "InvalidProcessGraphError"
        THEN Update([structured_sop |-> None,
                     next_action |-> Some("end_with_error")], TRUE)
        ELSE Uncaught

Report(status, reason) == [status |-> status, reason |-> reason]

\* Variant: a rejection by the auditor also discards the stored graph.
AuditOutcome_discards(res, d) ==
    IF d = "return"
    THEN IF res.value.is_logical
         THEN Update([validation_report |-> Some(Report("SUCCESS", res.value.reason)),
                      correction_feedback |-> None,
                      next_action |-> Some("generate_report")], TRUE)
         ELSE Update([structured_sop |-> None,
                      validation_report |-> Some(Report("REJECTED", res.value.reason)),
                      correction_feedback |-> Some(res.value.reason),
                      next_action |-> Some("structure_sop")], TRUE)
    ELSE IF d = "retry" THEN Again
    ELSE Update([validation_report |->
                    Some(Report("FAILURE", [kind |-> "auditor_failed", error |-> res.exc])),
                 next_action |-> Some("end_with_error")], TRUE)

\* What the agent returns once the auditor has answered or its tries are spent.
AuditOutcome(res, d) ==
    IF d = "return"
    THEN IF res.value.is_logical
         THEN Update([validation_report |-> Some(Report("SUCCESS", res.value.reason)),
                      correction_feedback |-> None,
                      next_action |-> Some("generate_report")], TRUE)
         ELSE Update([validation_report |-> Some(Report("REJECTED", res.value.reason)),
                      correction_feedback |-> Some(res.value.reason),
                      next_action |-> Some("structure_sop")], TRUE)
    ELSE IF d = "retry" THEN Again
    ELSE Update([validation_report |->
                    Some(Report("FAILURE", [kind |-> "auditor_failed", error |-> res.exc])),
                 next_action |-> Some("end_with_error")], TRUE)

\* Variant: a well-formed rejection makes the auditor be called again.
intelligent_validator_agent_reasks(st, failed, r) ==
    LET graph_dict == st.structured_sop IN
    IF ~graph_dict.some \/ ~ProcessGraphValid(graph_dict.v)
    THEN LET reason == [kind |-> "invalid_structure"]
         IN  Update([validation_report |-> Some(Report("FAILURE", reason)),
                     correction_feedback |-> Some(reason),
                     next_action |-> Some("structure_sop")], FALSE)
    ELSE IF ~validate_graph_with_code(graph_dict.v).ok
    THEN LET reason == validate_graph_with_code(graph_dict.v).reason
         IN  Update([validation_report |-> Some(Report("REJECTED", reason)),
                     correction_feedback |-> Some(reason),
                     next_action |-> Some("structure_sop")], FALSE)
    ELSE
    LET res == get_llm_audit(r)
        d == Retry(AuditRetry, res, failed)
    IN  IF d = "return" /\ ~res.value.is_logical /\ failed + 1 < AuditRetry.tries
        THEN Again
        ELSE AuditOutcome(res, d)

\* Variant: the auditor is asked without the code validation before it.
intelligent_validator_agent_unvalidated(st, failed, r) ==
    LET graph_dict == st.structured_sop IN
    IF ~graph_dict.some \/ ~ProcessGraphValid(graph_dict.v)
    THEN LET reason == [kind |-> "invalid_structure"]
         IN  Update([validation_report |-> Some(Report("FAILURE", reason)),
                     correction_feedback |-> Some(reason),
                     next_action |-> Some("structure_sop")], FALSE)
    ELSE AuditOutcome(get_llm_audit(r), Retry(AuditRetry, get_llm_audit(r), failed))

intelligent_validator_agent(st, failed, r) ==
    LET graph_dict == st.structured_sop IN
    IF ~graph_dict.some \/ ~ProcessGraphValid(graph_dict.v)
    THEN LET reason == [kind |-> "invalid_structure"]
         IN  Update([validation_report |-> Some(Report("FAILURE", reason)),
                     correction_feedback |-> Some(reason),
                     next_action |-> Some("structure_sop")], FALSE)
    ELSE IF ~validate_graph_with_code(graph_dict.v).ok
    THEN LET reason == validate_graph_with_code(graph_dict.v).reason
         IN  Update([validation_report |-> Some(Report("REJECTED", reason)),
                     correction_feedback |-> Some(reason),
                     next_action |-> Some("structure_sop")], FALSE)
    ELSE AuditOutcome(get_llm_audit(r), Retry(AuditRetry, get_llm_audit(r), failed))

-----------------------------------------------------------------------------
(* main.py: the routing *)

\* route_based_on_next_action
route_based_on_next_action(st) ==
    LET next_action == st.next_action
    IN  IF ~next_action.some \/ next_action.v = "end_with_error" THEN "END"
        ELSE next_action.v

\* the path maps given to add_conditional_edges
PathMap(n) ==
    CASE n = "clarification" -> {"structure_sop", "END"}
      [] n = "structure_sop" -> {"validate_sop", "END"}
      [] n = "validate_sop" -> {"generate_report", "structure_sop", "END"}

\* Variant: the correction loop is cut after three entries of structure_sop.
NextNode_capped(n, st) ==
    IF n = "generate_report" THEN "END"
    ELSE LET key == route_based_on_next_action(st)
         IN  IF key = "structure_sop" /\ entries >= 3 THEN "END"
             ELSE IF key \in PathMap(n) THEN key ELSE "crashed"

\* The node run after n returned: a key missing from the path map is an error
\* raised by the graph runtime.
NextNode(n, st) ==
    IF n = "generate_report" THEN "END"
    ELSE LET key == route_based_on_next_action(st)
         IN  IF key \in PathMap(n) THEN key ELSE "crashed"

\* LangGraph writes the keys an agent returns over the state and keeps the rest.
Merge(st, upd) ==
    [k \in DOMAIN st |-> IF k \in DOMAIN upd THEN upd[k] ELSE st[k]]

-----------------------------------------------------------------------------
(* bpmn_engineer_agent.py: layout *)

X_START == 150
Y_START == 250
X_GAP == 120
Y_GAP == 120

SIZES(type) ==
    CASE type = "startEvent" -> [w |-> 36, h |-> 36]
      [] type = "endEvent" -> [w |-> 36, h |-> 36]
      [] type = "task" -> [w |-> 100, h |-> 80]
      [] type = "gateway" -> [w |-> 50, h |-> 50]

\* A Python number: an int, or a float holding a whole value.
Num(v, fl) == [v |-> v, fl |-> fl]

\* nodes_by_id = {node.id: node for node in nodes}: a repeated id keeps the last node.
NodeIds(g) == {g.nodes[i].id : i \in 1..Len(g.nodes)}
nodes_by_id(g, id) == g.nodes[SetMax({i \in 1..Len(g.nodes) : g.nodes[i].id = id})]

\* next((n.id for n in nodes if n.type == 'startEvent'), None)
\* Variant: without a startEvent the first node is taken as the start.
start_node_id_first(g) ==
    LET starts == {i \in 1..Len(g.nodes) : g.nodes[i].type = "startEvent"}
    IN  IF g.nodes = <<>> THEN None
        ELSE IF starts = {} THEN Some(g.nodes[1].id) ELSE Some(g.nodes[SetMin(starts)].id)

start_node_id(g) ==
    LET starts == {i \in 1..Len(g.nodes) : g.nodes[i].type = "startEvent"}
    IN  IF starts = {} THEN None ELSE Some(g.nodes[SetMin(starts)].id)

\* key=lambda f: f.condition or ''
CondKey(f) == IF f.condition.some THEN f.condition.v ELSE <<>>

\* Variant: a flow goes before the flows whose key is equal.
RECURSIVE InsertFlow_unstable(_, _)
InsertFlow_unstable(sorted, f) ==
    IF sorted = <<>> THEN <<f>>
    ELSE IF ~StrLess(CondKey(Head(sorted)), CondKey(f)) THEN <<f>> \o sorted
    ELSE <<Head(sorted)>> \o InsertFlow_unstable(Tail(sorted), f)

\* sorted(...) is stable: a flow goes after every flow whose key is not greater.
RECURSIVE InsertFlow(_, _)
InsertFlow(sorted, f) ==
    IF sorted = <<>> THEN <<f>>
    ELSE IF StrLess(CondKey(f), CondKey(Head(sorted))) THEN <<f>> \o sorted
    ELSE <<Head(sorted)>> \o InsertFlow(Tail(sorted), f)

RECURSIVE SortFlows(_)
SortFlows(fs) ==
    IF fs = <<>> THEN <<>>
    ELSE InsertFlow(SortFlows(SubSeq(fs, 1, Len(fs) - 1)), fs[Len(fs)])

\* [f for f in flows if f.source_id == node_id]
RECURSIVE outgoing_flows(_, _)
outgoing_flows(flows, id) ==
    IF flows = <<>> THEN <<>>
    ELSE (IF Head(flows).source_id = id THEN <<Head(flows)>> ELSE <<>>)
            \o outgoing_flows(Tail(flows), id)

\* next_y = y + (i - (len(outgoing_flows) - 1) / 2) * Y_GAP if is_gateway else y
\* (i counts from 0; "/" is float division, so the result is a float).
\* Variant: the half step is computed with floor division.
next_y_floor(y, i, k, is_gateway) ==
    IF is_gateway THEN Num(y.v + (i - (k - 1) \div 2) * Y_GAP, FALSE) ELSE y

next_y(y, i, k, is_gateway) ==
    IF is_gateway THEN Num(y.v + ((2 * i - (k - 1)) * Y_GAP) \div 2, TRUE) ELSE y

\* Variant: the children are counted from 1.
Children_fromone(sorted, x, y, is_gateway) ==
    [i \in 1..Len(sorted) |->
        [id |-> sorted[i].target_id, x |-> x,
         y |-> next_y(y, i, Len(sorted), is_gateway)]]

Children(sorted, x, y, is_gateway) ==
    [i \in 1..Len(sorted) |->
        [id |-> sorted[i].target_id, x |-> x,
         y |-> next_y(y, i - 1, Len(sorted), is_gateway)]]

VisitedIds(visited) == {visited[i].id : i \in 1..Len(visited)}

\* Variant: the test "if node_id in visited_coords: continue" is missing.
Pass_noskip(g, q, visited) ==
    LET e == Head(q) IN
    IF e.id \notin NodeIds(g)
    THEN [ok |-> FALSE, q |-> Tail(q), visited |-> visited]
    ELSE LET n == nodes_by_id(g, e.id)
             sz == SIZES(n.type)
             c == [x |-> e.x, y |-> Num(e.y.v - sz.h \div 2, e.y.fl),
                   width |-> sz.w, height |-> sz.h]
             out == SortFlows(outgoing_flows(g.flows, e.id))
             kids == Children(out, e.x + sz.w + X_GAP, e.y, n.type = "gateway")
         IN  [ok |-> TRUE, q |-> Tail(q) \o kids,
              visited |-> Append(visited, [id |-> e.id, c |-> c])]

\* Variant: the placement records the y of the entry, without the centring.
Pass_uncentred(g, q, visited) ==
    LET e == Head(q) IN
    IF e.id \in VisitedIds(visited)
    THEN [ok |-> TRUE, q |-> Tail(q), visited |-> visited]
    ELSE IF e.id \notin NodeIds(g)
    THEN [ok |-> FALSE, q |-> Tail(q), visited |-> visited]
    ELSE LET n == nodes_by_id(g, e.id)
             sz == SIZES(n.type)
             c == [x |-> e.x, y |-> e.y, width |-> sz.w, height |-> sz.h]
             out == SortFlows(outgoing_flows(g.flows, e.id))
             kids == Children(out, e.x + sz.w + X_GAP, e.y, n.type = "gateway")
         IN  [ok |-> TRUE, q |-> Tail(q) \o kids,
              visited |-> Append(visited, [id |-> e.id, c |-> c])]

\* One pass through the body of "while q": the entry at the head of q is
\* popped; an id already placed is skipped, an id that is no node raises the
\* KeyError of nodes_by_id[node_id], any other id is placed and its children
\* are appended to q.
Pass(g, q, visited) ==
    LET e == Head(q) IN
    IF e.id \in VisitedIds(visited)
    THEN [ok |-> TRUE, q |-> Tail(q), visited |-> visited]
    ELSE IF e.id \notin NodeIds(g)
    THEN [ok |-> FALSE, q |-> Tail(q), visited |-> visited]
    ELSE LET n == nodes_by_id(g, e.id)
             sz == SIZES(n.type)
             c == [x |-> e.x, y |-> Num(e.y.v - sz.h \div 2, e.y.fl),
                   width |-> sz.w, height |-> sz.h]
             out == SortFlows(outgoing_flows(g.flows, e.id))
             kids == Children(out, e.x + sz.w + X_GAP, e.y, n.type = "gateway")
         IN  [ok |-> TRUE, q |-> Tail(q) \o kids,
              visited |-> Append(visited, [id |-> e.id, c |-> c])]

\* while q: ...  Ends in the placements in insertion order, or in the KeyError.
RECURSIVE LayoutLoop(_, _, _)
LayoutLoop(g, q, visited) ==
    IF q = <<>> THEN [ok |-> TRUE, visited |-> visited]
    ELSE LET r == Pass(g, q, visited)
         IN  IF ~r.ok THEN [ok |-> FALSE, visited |-> visited]
             ELSE LayoutLoop(g, r.q, r.visited)

Coords(visited, id) == visited[CHOOSE i \in 1..Len(visited) : visited[i].id = id].c

-----------------------------------------------------------------------------
(* bpmn_engineer_agent.py: the document *)

\* xml.sax.saxutils.escape: & then < then >
EscapeChar(c) ==
    CASE c = 38 -> <<38, 97, 109, 112, 59>>
      [] c = 60 -> <<38, 108, 116, 59>>
      [] c = 62 -> <<38, 103, 116, 59>>
      [] OTHER -> <<c>>

RECURSIVE escape(_)
escape(t) == IF t = <<>> THEN <<>> ELSE EscapeChar(Head(t)) \o escape(Tail(t))

\* ElementTree's escaping of an attribute value when ET.tostring writes it
EscapeAttribChar(c) ==
    CASE c = 38 -> <<38, 97, 109, 112, 59>>
      [] c = 60 -> <<38, 108, 116, 59>>
      [] c = 62 -> <<38, 103, 116, 59>>
      [] c = 34 -> <<38, 113, 117, 111, 116, 59>>
      [] c = 13 -> <<38, 35, 49, 51, 59>>
      [] c = 10 -> <<38, 35, 49, 48, 59>>
      [] c = 9 -> <<38, 35, 48, 57, 59>>
      [] OTHER -> <<c>>

RECURSIVE escape_attrib(_)
escape_attrib(t) ==
    IF t = <<>> THEN <<>> ELSE EscapeAttribChar(Head(t)) \o escape_attrib(Tail(t))

pDefinitions == <<68, 101, 102, 105, 110, 105, 116, 105, 111, 110, 115>>
pProcess == <<80, 114, 111, 99, 101, 115, 115>>
pBPMNDiagram == <<66, 80, 77, 78, 68, 105, 97, 103, 114, 97, 109>>
pBPMNPlane == <<66, 80, 77, 78, 80, 108, 97, 110, 101>>
pFlow == <<70, 108, 111, 119>>
sDi == <<95, 100, 105>>      \* "_di"

\* The k-th uuid4 of a compilation that draws stream seed: one token standing
\* for the 32 hex digits, different for every (seed, k).
Uuid4(seed, k) == 1000 * seed + k

\* f"{prefix}_{str(uuid.uuid4()).replace('-', '')}"
create_safe_xml_id(prefix, seed, k) == prefix \o <<95>> \o <<Uuid4(seed, k)>>

\* Variant: a task is written as a plain task.
NodeTag_task(type) ==
    CASE type = "startEvent" -> "bpmn:startEvent"
      [] type = "endEvent" -> "bpmn:endEvent"
      [] type = "task" -> "bpmn:task"
      [] type = "gateway" -> "bpmn:exclusiveGateway"

NodeTag(type) ==
    CASE type = "startEvent" -> "bpmn:startEvent"
      [] type = "endEvent" -> "bpmn:endEvent"
      [] type = "task" -> "bpmn:userTask"
      [] type = "gateway" -> "bpmn:exclusiveGateway"

NodeElement(g, id) ==
    LET n == nodes_by_id(g, id)
    IN  [tag |-> NodeTag(n.type), id |-> id, name |-> escape(n.label)]

ShapeElement(g, v) ==
    [id |-> nodes_by_id(g, v.id).id \o sDi, bpmnElement |-> nodes_by_id(g, v.id).id,
     bounds |-> [x |-> v.c.x, y |-> v.c.y.v, width |-> v.c.width, height |-> v.c.height]]

\* the k-th uuid drawn is for flow number k - 4: four ids are drawn before the flows
FlowId(seed, i) == create_safe_xml_id(pFlow, seed, 4 + i)

FlowElement(f, flow_id) ==
    [id |-> flow_id, sourceRef |-> f.source_id, targetRef |-> f.target_id,
     name |-> IF f.condition.some /\ f.condition.v # <<>>
              THEN Some(escape(f.condition.v)) ELSE None]

\* str(v) of a coordinate: an int prints bare, a float with ".0" (fl)
Waypoint(x, y) == [x |-> Num(x, FALSE), y |-> y]

\* Variant: every edge goes straight from the source to the target.
EdgeElement_straight(f, flow_id, visited) ==
    LET c_source == Coords(visited, f.source_id)
        c_target == Coords(visited, f.target_id)
    IN  [id |-> flow_id \o sDi, bpmnElement |-> flow_id,
         waypoints |->
            <<Waypoint(c_source.x + c_source.width,
                       Num(c_source.y.v + c_source.height \div 2, c_source.y.fl)),
              Waypoint(c_target.x,
                       Num(c_target.y.v + c_target.height \div 2, c_target.y.fl))>>]

\* Variant: the edge refers to a flow id of its own making.
EdgeElement_newid(f, flow_id, visited) ==
    LET c_source == Coords(visited, f.source_id)
        c_target == Coords(visited, f.target_id)
    IN  [id |-> flow_id \o sDi, bpmnElement |-> pFlow \o <<95, 0>>,
         waypoints |-> <<Waypoint(c_source.x + c_source.width, c_source.y),
                         Waypoint(c_target.x, c_target.y)>>]

EdgeElement(f, flow_id, visited) ==
    LET c_source == Coords(visited, f.source_id)
        c_target == Coords(visited, f.target_id)
        start_x == c_source.x + c_source.width
        start_y == Num(c_source.y.v + c_source.height \div 2, c_source.y.fl)
        end_x == c_target.x
        end_y == Num(c_target.y.v + c_target.height \div 2, c_target.y.fl)
        mid_x == start_x + X_GAP \div 2
    IN  [id |-> flow_id \o sDi, bpmnElement |-> flow_id,
         waypoints |->
            <<Waypoint(start_x, start_y)>>
            \o (IF start_y.v # end_y.v
                THEN <<Waypoint(mid_x, start_y), Waypoint(mid_x, end_y)>> ELSE <<>>)
            \o <<Waypoint(end_x, end_y)>>]

Reverse(q) == [i \in 1..Len(q) |-> q[Len(q) + 1 - i]]

\* Variant: the flows are walked in an order that differs from run to run (as
\* the iteration order of a set of strings does).
Document_unordered(g, visited, seed) ==
    LET process_id == create_safe_xml_id(pProcess, seed, 2)
        fs == IF seed % 2 = 0 THEN Reverse(g.flows) ELSE g.flows
    IN  [definitions |-> [id |-> create_safe_xml_id(pDefinitions, seed, 1)],
         process |-> [id |-> process_id, name |-> escape(g.titre),
                      nodes |-> [i \in 1..Len(visited) |-> NodeElement(g, visited[i].id)],
                      flows |-> [i \in 1..Len(fs) |-> FlowElement(fs[i], FlowId(seed, i))]],
         diagram |-> [id |-> create_safe_xml_id(pBPMNDiagram, seed, 3)],
         plane |-> [id |-> create_safe_xml_id(pBPMNPlane, seed, 4),
                    bpmnElement |-> process_id,
                    shapes |-> [i \in 1..Len(visited) |-> ShapeElement(g, visited[i])],
                    edges |-> [i \in 1..Len(fs) |->
                                  EdgeElement(fs[i], FlowId(seed, i), visited)]]]

\* Variant: a node element is written for every node of the graph, placed or not.
Document_allnodes(g, visited, seed) ==
    LET process_id == create_safe_xml_id(pProcess, seed, 2)
    IN  [definitions |-> [id |-> create_safe_xml_id(pDefinitions, seed, 1)],
         process |-> [id |-> process_id, name |-> escape(g.titre),
                      nodes |-> [i \in 1..Len(g.nodes) |-> NodeElement(g, g.nodes[i].id)],
                      flows |-> [i \in 1..Len(g.flows) |-> FlowElement(g.flows[i], FlowId(seed, i))]],
         diagram |-> [id |-> create_safe_xml_id(pBPMNDiagram, seed, 3)],
         plane |-> [id |-> create_safe_xml_id(pBPMNPlane, seed, 4),
                    bpmnElement |-> process_id,
                    shapes |-> [i \in 1..Len(visited) |-> ShapeElement(g, visited[i])],
                    edges |-> [i \in 1..Len(g.flows) |->
                                  EdgeElement(g.flows[i], FlowId(seed, i), visited)]]]

\* The element tree handed to ET.tostring, children in the order they were added.
Document(g, visited, seed) ==
    LET process_id == create_safe_xml_id(pProcess, seed, 2)
    IN  [definitions |-> [id |-> create_safe_xml_id(pDefinitions, seed, 1)],
         process |-> [id |-> process_id, name |-> escape(g.titre),
                      nodes |-> [i \in 1..Len(visited) |-> NodeElement(g, visited[i].id)],
                      flows |-> [i \in 1..Len(g.flows) |-> FlowElement(g.flows[i], FlowId(seed, i))]],
         diagram |-> [id |-> create_safe_xml_id(pBPMNDiagram, seed, 3)],
         plane |-> [id |-> create_safe_xml_id(pBPMNPlane, seed, 4),
                    bpmnElement |-> process_id,
                    shapes |-> [i \in 1..Len(visited) |-> ShapeElement(g, visited[i])],
                    edges |-> [i \in 1..Len(g.flows) |->
                                  EdgeElement(g.flows[i], FlowId(seed, i), visited)]]]

\* Variant: a flow with an endpoint that was not placed is left out of the
\* document instead of ending the compilation.
BuildXml_drops(g, seed) ==
    IF ~ProcessGraphValid(g) THEN None
    ELSE LET start == start_node_id(g) IN
         IF ~start.some THEN None
         ELSE LET lay == LayoutLoop(g, <<[id |-> start.v, x |-> X_START,
                                          y |-> Num(Y_START, FALSE)]>>, <<>>)
                  Kept(f) == /\ f.source_id \in VisitedIds(lay.visited)
                             /\ f.target_id \in VisitedIds(lay.visited)
              IN  IF ~lay.ok THEN None
                  ELSE Some(Document([g EXCEPT !.flows = SelectSeq(g.flows, Kept)],
                                     lay.visited, seed))

\* The body of the try block: the document, or None when an exception is caught.
BuildXml(g, seed) ==
    IF ~ProcessGraphValid(g) THEN None
    ELSE LET start == start_node_id(g) IN
         IF ~start.some THEN None
         ELSE LET lay == LayoutLoop(g, <<[id |-> start.v, x |-> X_START,
                                          y |-> Num(Y_START, FALSE)]>>, <<>>)
              IN  IF ~lay.ok THEN None
                  ELSE IF \E i \in 1..Len(g.flows) :
                            \/ g.flows[i].source_id \notin VisitedIds(lay.visited)
                            \/ g.flows[i].target_id \notin VisitedIds(lay.visited)
                  THEN None
                  ELSE Some(Document(g, lay.visited, seed))

\* ns: the prefixes the agent registers, with the namespaces they stand for
ns ==
    <<[prefix |-> "bpmn", uri |-> "http://www.omg.org/spec/BPMN/20100524/MODEL"],
      [prefix |-> "bpmndi", uri |-> "http://www.omg.org/spec/BPMN/20100524/DI"],
      [prefix |-> "dc", uri |-> "http://www.omg.org/spec/DD/20100524/DC"],
      [prefix |-> "di", uri |-> "http://www.omg.org/spec/DD/20100524/DI"]>>

\* the registry of a process in which nothing has been registered yet
DefaultNamespaceMap ==
    {[prefix |-> "xml", uri |-> "http://www.w3.org/XML/1998/namespace"],
     [prefix |-> "dc", uri |-> "http://purl.org/dc/elements/1.1/"]}

\* ET.register_namespace: entries with this prefix or this namespace go, then
\* the new entry is put in
register_namespace(map, e) ==
    {x \in map : x.uri # e.uri /\ x.prefix # e.prefix} \cup {e}

\* for prefix, uri in ns.items(): ET.register_namespace(prefix, uri)
RECURSIVE register_namespaces(_, _)
register_namespaces(entries_, map) ==
    IF entries_ = <<>> THEN map
    ELSE register_namespaces(Tail(entries_), register_namespace(map, Head(entries_)))

\* the prefixes ET.tostring writes for the four namespaces of the document:
\* the registered one, or ns0, ns1, ... in the order of first use
AutoPrefix == <<"ns0", "ns1", "ns2", "ns3">>

QNames(map) ==
    [k \in 1..Len(ns) |->
        IF \E x \in map : x.uri = ns[k].uri
        THEN (CHOOSE x \in map : x.uri = ns[k].uri).prefix
        ELSE AutoPrefix[k]]

\* Variant: ET.tostring reads the registry as the agent found it.
RegistryAtTostring_before(map) == map

\* the registry ET.tostring reads: the agent has registered its prefixes by then
RegistryAtTostring(map) == register_namespaces(ns, map)

\* the registry after the agent has run on st: it registers once the state
\* has passed the guard and the graph its schema
RegistryAfter(st, map) ==
    IF /\ st.structured_sop.some
       /\ st.validation_report.some
       /\ st.validation_report.v.status = "SUCCESS"
       /\ ProcessGraphValid(st.structured_sop.v)
    THEN register_namespaces(ns, map)
    ELSE map

\* Variant: the status of the validation report is not looked at.
bpmn_engineer_agent_unchecked(st, seed) ==
    IF ~st.structured_sop.some THEN [bpmn_xml |-> None]
    ELSE [bpmn_xml |-> BuildXml(st.structured_sop.v, seed)]

bpmn_engineer_agent(st, seed) ==
    LET graph_dict == st.structured_sop
        validation_report == st.validation_report
    IN  IF ~graph_dict.some
           \/ ~validation_report.some
           \/ validation_report.v.status # "SUCCESS"
        THEN [bpmn_xml |-> None]
        ELSE [bpmn_xml |-> BuildXml(graph_dict.v, seed)]

-----------------------------------------------------------------------------------------------------------------------------------------------------
(* The run: app.invoke(initial_state) *)

Stages == {"clarification", "structure_sop", "validate_sop", "generate_report"}

EmptyState ==
    [general_response |-> None, structured_sop |-> None, validation_report |-> None,
     bpmn_xml |-> None, correction_feedback |-> None, next_action |-> None]

NoHistory ==
    /\ attempt = 0
    /\ log = [stage |-> "none", calls |-> 0, last |-> "none"]
    /\ rejects = 0
    /\ structRejected = FALSE
    /\ accepted = None
    /\ lastGen = None
    /\ allSame = TRUE
    /\ firstDoc = None
    /\ queue = <<>>
    /\ visited_coords = <<>>
    /\ pushed = 0
    /\ prompt = None
    /\ namespace_map = DefaultNamespaceMap
    /\ runs = <<>>
    /\ solo = <<>>

\* initial_state = {"input_question": ...}; the entry point is "clarification"
Init ==
    /\ state = EmptyState
    /\ node = "clarification"
    /\ entries = 0
    /\ NoHistory

RespKind(res) ==
    IF res.exc = "none" THEN "WellFormed"
    ELSE IF res.exc = "RuntimeError" THEN "CallError"
    ELSE "FormatError"

Bump(n) == Min(n + 1, MaxEntries)

\* What one step of the agent running in node does to the run.
Step(out, res) ==
    /\ log' = [stage |-> node,
               calls |-> IF out.called THEN attempt + 1 ELSE 0,
               last |-> IF out.called THEN RespKind(res) ELSE "none"]
    /\ \/ /\ out.kind = "retry"
          /\ attempt' = attempt + 1
          /\ UNCHANGED <<state, node, entries>>
       \/ /\ out.kind = "uncaught"
          /\ attempt' = 0
          /\ node' = "crashed"
          /\ UNCHANGED <<state, entries>>
       \/ /\ out.kind = "update"
          /\ attempt' = 0
          /\ state' = Merge(state, out.upd)
          /\ node' = NextNode(node, Merge(state, out.upd))
          /\ entries' = IF NextNode(node, Merge(state, out.upd)) = "structure_sop"
                        THEN Bump(entries) ELSE entries

Clarify ==
    /\ node = "clarification"
    /\ \E r \in TextResponses :
          Step(clarification_agent(state, attempt, r), generate_and_validate_description(r))
    /\ UNCHANGED <<rejects, structRejected, accepted, lastGen, allSame, firstDoc,
                   queue, visited_coords, pushed, prompt, namespace_map, runs, solo>>

Structure ==
    /\ node = "structure_sop"
    /\ \E r \in GraphResponses :
          LET res == generate_and_validate_process_graph(r)
              out == sop_structure_agent(state, attempt, r)
              made == out.called /\ res.exc = "none"
          IN  /\ Step(out, res)
              /\ lastGen' = IF made THEN Some(res.value) ELSE lastGen
              /\ allSame' = IF made /\ lastGen.some THEN allSame /\ lastGen.v = res.value
                            ELSE allSame
              /\ prompt' = IF out.called THEN Some(StructurePrompt(state)) ELSE prompt
    /\ UNCHANGED <<rejects, structRejected, accepted, firstDoc, queue, visited_coords, pushed,
                   namespace_map, runs, solo>>

Validate ==
    /\ node = "validate_sop"
    /\ \E r \in AuditResponses :
          LET res == get_llm_audit(r)
              out == intelligent_validator_agent(state, attempt, r)
              answered == out.called /\ res.exc = "none"
              byCode == ~out.called /\ state.structured_sop.some
                        /\ ProcessGraphValid(state.structured_sop.v)
          IN  /\ Step(out, res)
              /\ accepted' = IF answered /\ res.value.is_logical
                             THEN state.structured_sop ELSE accepted
              /\ rejects' = IF byCode \/ (answered /\ ~res.value.is_logical)
                            THEN Bump(rejects) ELSE rejects
              /\ structRejected' = (structRejected \/ byCode)
    /\ UNCHANGED <<lastGen, allSame, firstDoc, queue, visited_coords, pushed, prompt, namespace_map, runs, solo>>

\* generate_report, then the edge to END
Generate ==
    /\ node = "generate_report"
    /\ \E seed \in 1..NSeeds :
          state' = Merge(state, bpmn_engineer_agent(state, seed))
    /\ node' = "END"
    /\ log' = [stage |-> node, calls |-> 0, last |-> "none"]
    /\ attempt' = 0
    /\ namespace_map' = RegistryAfter(state, namespace_map)
    /\ UNCHANGED <<entries, rejects, structRejected, accepted, lastGen, allSame, firstDoc,
                   queue, visited_coords, pushed, prompt, runs, solo>>

Next == Clarify \/ Structure \/ Validate \/ Generate

Spec == Init /\ [][Next]_vars

-----------------------------------------------------------------------------
(* An agent called on a state built by hand, as the test blocks of the agent
   modules do, the graph then running on from that node. *)

AuditReason == [kind |-> "audit", len |-> MinReasonLen]

HandBuiltStates ==
    [general_response : {None, Some(Description(MinDescriptionLen, tEmpty))},
     structured_sop : {None} \cup {Some(g) : g \in GraphPool \cup {GraphBadType}},
     validation_report : {None, Some(Report("SUCCESS", AuditReason)),
                          Some(Report("REJECTED", AuditReason))},
     bpmn_xml : {None},
     correction_feedback : {None, Some(AuditReason)},
     next_action : {None}]

InitAgent ==
    /\ state \in HandBuiltStates
    /\ node \in Stages
    /\ entries = IF node = "structure_sop" THEN 1 ELSE 0
    /\ NoHistory

SpecAgent == InitAgent /\ [][Next]_vars

-----------------------------------------------------------------------------
(* generate_report run twice on the same state *)

InitTwice ==
    /\ \E g \in {None} \cup {Some(x) : x \in CompilePool},
          rep \in {None} \cup {Some(Report(st, AuditReason)) :
                                  st \in {"SUCCESS", "REJECTED", "FAILURE"}} :
          state = [EmptyState EXCEPT !.structured_sop = g, !.validation_report = rep]
    /\ node = "generate_report"
    /\ entries = 0
    /\ NoHistory

Regenerate ==
    /\ node = "END"
    /\ firstDoc' = state.bpmn_xml
    /\ \E seed \in 1..NSeeds :
          state' = Merge(state, bpmn_engineer_agent(state, seed))
    /\ node' = "DONE"
    /\ namespace_map' = RegistryAfter(state, namespace_map)
    /\ UNCHANGED <<attempt, log, entries, rejects, structRejected, accepted, lastGen, allSame,
                   queue, visited_coords, pushed, prompt, runs, solo>>

NextTwice == Generate \/ Regenerate

SpecTwice == InitTwice /\ [][NextTwice]_vars

-----------------------------------------------------------------------------
(* validate_sop entered with a graph of any shape in the state *)

MaxNodes == 2
MaxFlows == 2

SeqsUpTo(S, n) == UNION {[1..k -> S] : k \in 0..n}

nH == ProcessNode(tB, "gateway", tB)

ValidatorNodes == {nS, nG, nH, nE}
ValidatorFlows ==
    {ProcessFlow(tG, tE, None), ProcessFlow(tB, tE, Some(tOui)), ProcessFlow(tS, tG, None)}

ValidatorGraphs ==
    {GraphJson(tTitleT, nodes, flows) :
        nodes \in SeqsUpTo(ValidatorNodes, MaxNodes), flows \in SeqsUpTo(ValidatorFlows, MaxFlows)}

InitValidator ==
    /\ \E g \in ValidatorGraphs : state = [EmptyState EXCEPT !.structured_sop = Some(g)]
    /\ node = "validate_sop"
    /\ entries = 0
    /\ NoHistory

NextValidator == Validate

SpecValidator == InitValidator /\ [][NextValidator]_vars

-----------------------------------------------------------------------------
(* The layout loop of bpmn_engineer_agent, one pass of "while q" at a time *)

MaxLayoutFlows == 3

LayoutFlows ==
    {ProcessFlow(tS, tA, None), ProcessFlow(tA, tG, None),
     ProcessFlow(tG, tA, Some(tNon)), ProcessFlow(tG, tE, Some(tOui)),
     ProcessFlow(tA, tE, None), ProcessFlow(tA, tA, None), ProcessFlow(tA, tZ, None)}

LayoutGraphs ==
    CompilePool \cup {GraphSortKeys, GraphSortTies} \cup
    {GraphJson(tTitleT, <<nS, nA, nG, nE>>, fs) : fs \in SeqsUpTo(LayoutFlows, MaxLayoutFlows)}

InitLayout ==
    /\ \E g \in LayoutGraphs :
          state = [EmptyState EXCEPT !.structured_sop = Some(g),
                       !.validation_report = Some(Report("SUCCESS", AuditReason))]
    /\ node = "layout"
    /\ entries = 0
    /\ NoHistory

\* start_node_id and q = [(start_node_id, X_START, Y_START)]
LayoutStart ==
    /\ node = "layout"
    /\ LET start == start_node_id(state.structured_sop.v)
       IN  IF start.some
           THEN /\ queue' = <<[id |-> start.v, x |-> X_START, y |-> Num(Y_START, FALSE)]>>
                /\ pushed' = 1
                /\ node' = "layout_loop"
           ELSE /\ node' = "layout_failed"
                /\ UNCHANGED <<queue, pushed>>
    /\ UNCHANGED <<state, attempt, log, entries, rejects, structRejected, accepted,
                   lastGen, allSame, firstDoc, visited_coords, prompt,
                   namespace_map, runs, solo>>

\* one pass of the loop
LayoutPass ==
    /\ node = "layout_loop"
    /\ queue # <<>>
    /\ LET r == Pass(state.structured_sop.v, queue, visited_coords)
       IN  IF r.ok
           THEN /\ queue' = r.q
                /\ visited_coords' = r.visited
                /\ pushed' = pushed + (Len(r.q) - (Len(queue) - 1))
                /\ UNCHANGED node
           ELSE /\ node' = "layout_failed"
                /\ UNCHANGED <<queue, visited_coords, pushed>>
    /\ UNCHANGED <<state, attempt, log, entries, rejects, structRejected, accepted,
                   lastGen, allSame, firstDoc, prompt,
                   namespace_map, runs, solo>>

\* the loop is left when q is empty
LayoutEnd ==
    /\ node = "layout_loop"
    /\ queue = <<>>
    /\ node' = "layout_done"
    /\ UNCHANGED <<state, attempt, log, entries, rejects, structRejected, accepted,
                   lastGen, allSame, firstDoc, queue, visited_coords, pushed, prompt, namespace_map, runs, solo>>

NextLayout == LayoutStart \/ LayoutPass \/ LayoutEnd

SpecLayout == InitLayout /\ [][NextLayout]_vars

\* the agent is sequential code: a pass that can be made is made
FairLayout == SpecLayout /\ WF_vars(NextLayout)

-----------------------------------------------------------------------------
(* Two runs of app.invoke in one process, their stages interleaved. Beside  *)
(* each run goes the same run alone in a process of its own, given the same *)
(* responses.                                                                *)

TwoRuns == {1, 2}

\* the responses the two runs are given
TwoRunTexts == {CallFailed, [err |-> FALSE, text |-> Description(MinDescriptionLen, tEmpty)]}

TwoRunGraphs == {CallFailed} \cup {Raw(Plain(g)) : g \in {GraphE2E, GraphLinear, GraphBadGateway}}

TwoRunAudits == {CallFailed} \cup {Raw(Plain(AuditJson(b, MinReasonLen))) : b \in BOOLEAN}

\* app.invoke(initial_state): a state of its own, entered at "clarification"
NewRun == [state |-> EmptyState, node |-> "clarification", attempt |-> 0, prefixes |-> None]

\* one agent step of a run and the routing after it
Advance(run, out) ==
    IF out.kind = "retry" THEN [run EXCEPT !.attempt = run.attempt + 1]
    ELSE IF out.kind = "uncaught" THEN [run EXCEPT !.node = "crashed", !.attempt = 0]
    ELSE [run EXCEPT !.state = Merge(run.state, out.upd),
                     !.node = NextNode(run.node, Merge(run.state, out.upd)),
                     !.attempt = 0]

\* generate_report of a run in a process whose registry is map, then END
Compile(run, seed, map) ==
    LET upd == bpmn_engineer_agent(run.state, seed)
    IN  [run EXCEPT !.state = Merge(run.state, upd),
                    !.node = "END",
                    !.attempt = 0,
                    !.prefixes = IF upd.bpmn_xml.some
                                 THEN Some(QNames(RegistryAtTostring(map)))
                                 ELSE None]

InitTwoRuns ==
    /\ runs = [i \in TwoRuns |-> NewRun]
    /\ solo = [i \in TwoRuns |-> [run |-> NewRun, map |-> DefaultNamespaceMap]]
    /\ namespace_map = DefaultNamespaceMap
    /\ state = EmptyState
    /\ node = "none"
    /\ entries = 0
    /\ attempt = 0
    /\ log = [stage |-> "none", calls |-> 0, last |-> "none"]
    /\ rejects = 0
    /\ structRejected = FALSE
    /\ accepted = None
    /\ lastGen = None
    /\ allSame = TRUE
    /\ firstDoc = None
    /\ queue = <<>>
    /\ visited_coords = <<>>
    /\ pushed = 0
    /\ prompt = None

TwoRunsFrame ==
    UNCHANGED <<state, node, attempt, log, entries, rejects, structRejected, accepted,
                lastGen, allSame, firstDoc, queue, visited_coords, pushed, prompt>>

\* run i takes the step that returns out, its lone twin the one that returns alone
AgentStep(i, out, alone) ==
    /\ runs' = [runs EXCEPT ![i] = Advance(runs[i], out)]
    /\ solo' = [solo EXCEPT ![i].run = Advance(solo[i].run, alone)]
    /\ UNCHANGED namespace_map
    /\ TwoRunsFrame

TwoRunsClarify ==
    \E i \in TwoRuns :
        /\ runs[i].node = "clarification"
        /\ \E r \in TwoRunTexts :
              AgentStep(i, clarification_agent(runs[i].state, runs[i].attempt, r),
                           clarification_agent(solo[i].run.state, solo[i].run.attempt, r))

TwoRunsStructure ==
    \E i \in TwoRuns :
        /\ runs[i].node = "structure_sop"
        /\ \E r \in TwoRunGraphs :
              AgentStep(i, sop_structure_agent(runs[i].state, runs[i].attempt, r),
                           sop_structure_agent(solo[i].run.state, solo[i].run.attempt, r))

TwoRunsValidate ==
    \E i \in TwoRuns :
        /\ runs[i].node = "validate_sop"
        /\ \E r \in TwoRunAudits :
              AgentStep(i, intelligent_validator_agent(runs[i].state, runs[i].attempt, r),
                           intelligent_validator_agent(solo[i].run.state, solo[i].run.attempt, r))

TwoRunsGenerate ==
    \E i \in TwoRuns :
        /\ runs[i].node = "generate_report"
        /\ \E seed \in 1..NSeeds :
              /\ runs' = [runs EXCEPT ![i] = Compile(runs[i], seed, namespace_map)]
              /\ solo' = [solo EXCEPT
                             ![i] = [run |-> Compile(solo[i].run, seed, solo[i].map),
                                     map |-> RegistryAfter(solo[i].run.state, solo[i].map)]]
        /\ namespace_map' = RegistryAfter(runs[i].state, namespace_map)
        /\ TwoRunsFrame

NextTwoRuns == TwoRunsClarify \/ TwoRunsStructure \/ TwoRunsValidate \/ TwoRunsGenerate

SpecTwoRuns == InitTwoRuns /\ [][NextTwoRuns]_vars

-----------------------------------------------------------------------------
(* Properties *)

Status(st) == IF st.validation_report.some THEN st.validation_report.v.status ELSE "none"

Failure == {"CallError", "FormatError"}

Tries(stage) ==
    CASE stage = "clarification" -> ClarifyRetry.tries
      [] stage = "structure_sop" -> StructureRetry.tries
      [] stage = "validate_sop" -> AuditRetry.tries

\* the states generate_report can be handed
EngineerInputs ==
    [general_response : {None},
     structured_sop : {None} \cup {Some(g) : g \in CompilePool},
     validation_report : {None} \cup {Some(Report(x, AuditReason)) :
                                         x \in {"SUCCESS", "REJECTED", "FAILURE"}},
     bpmn_xml : {None},
     correction_feedback : {None},
     next_action : {None, Some("generate_report")}]

\* C1: in every state of a run a document exists only if the stored report is
\* SUCCESS for the stored graph, which passed the code validation and is the
\* graph the auditor accepted; and generate_report handed a missing graph or
\* a report that is not SUCCESS returns no document.
C1_DocumentOnlyAfterSuccess ==
    /\ state.bpmn_xml.some =>
          /\ Status(state) = "SUCCESS"
          /\ state.structured_sop.some
          /\ validate_graph_with_code(state.structured_sop.v).ok
          /\ accepted = state.structured_sop
    /\ \A st \in EngineerInputs, seed \in 1..NSeeds :
          (~st.structured_sop.some \/ Status(st) # "SUCCESS")
              => ~bpmn_engineer_agent(st, seed).bpmn_xml.some

C1_Witness == node = "END" /\ state.bpmn_xml.some /\ Status(state) = "SUCCESS"

\* C2: when the auditor rejected k times (k = 2 in particular) and the code
\* validation never did, generate_report is reached after exactly k + 1
\* entries of structure_sop, and the document is the compilation of the graph
\* generated last and of nothing else.
C2_CorrectionLoop ==
    /\ (node \in {"generate_report", "END"} /\ Status(state) = "SUCCESS"
            /\ ~structRejected /\ rejects < MaxEntries)
          => entries = rejects + 1
    /\ state.bpmn_xml.some =>
          /\ lastGen.some
          /\ \E seed \in 1..NSeeds : state.bpmn_xml = BuildXml(lastGen.v, seed)

C2_Witness ==
    /\ node = "END" /\ state.bpmn_xml.some
    /\ rejects = 2 /\ ~structRejected /\ entries = 3 /\ ~allSame

\* C3: in one entry of structure_sop the generator is called at most 3 times;
\* after a failed call (FormatError or CallError) that was not the third, it
\* is called again; after a call that returned a schema-valid graph the run
\* is in validate_sop; so k <= 2 failures then a valid graph are k + 1 calls.
C3_StructureRetryBound ==
    log.stage = "structure_sop" =>
        /\ log.calls <= 3
        /\ (log.last \in Failure /\ log.calls <= 2)
              => (node = "structure_sop" /\ attempt = log.calls)
        /\ log.last = "WellFormed"
              => (node = "validate_sop" /\ state.structured_sop = lastGen)

C3_Witness ==
    /\ log.stage = "structure_sop" /\ log.calls = 3 /\ log.last = "WellFormed"
    /\ node = "validate_sop"

\* C4: a well-formed answer ends the stage entry: after a well-formed answer
\* of the auditor, accepting or rejecting, the run has left validate_sop, so
\* an entry whose first answer is well-formed calls the auditor once; the
\* same holds of the other two capabilities.
C4_NoRetryOnRejection ==
    (log.stage \in Stages /\ log.last = "WellFormed") =>
        /\ node # log.stage
        /\ attempt = 0
        /\ log.stage = "validate_sop" => Status(state) \in {"SUCCESS", "REJECTED"}

C4_Witness ==
    /\ log.stage = "validate_sop" /\ log.calls = 1 /\ log.last = "WellFormed"
    /\ Status(state) = "REJECTED" /\ node = "structure_sop"

\* C5: when a stage is left after a failed call, the run is at END with the
\* signal end_with_error and without a document.
C5_FailureEndsInError ==
    (log.stage \in Stages /\ log.last \in Failure /\ node # log.stage) =>
        /\ node = "END"
        /\ state.next_action = Some("end_with_error")
        /\ ~state.bpmn_xml.some

\* C6: a CallError that is not the last try of its capability is followed by
\* another call, as a FormatError is.
C6_CallErrorRetried ==
    (log.stage \in Stages /\ log.last = "CallError" /\ log.calls < Tries(log.stage)) =>
        (node = log.stage /\ attempt = log.calls)

\* C7: when the stored graph fails the code validation, validate_sop ends
\* without a call of the auditor, with a REJECTED report carrying the reason
\* of the code validation, the same reason as correction feedback, and the
\* run in structure_sop.
C7_StructuralCheckFirst ==
    (log.stage = "validate_sop" /\ state.structured_sop.some
        /\ ~validate_graph_with_code(state.structured_sop.v).ok) =>
        LET reason == validate_graph_with_code(state.structured_sop.v).reason
        IN  /\ log.calls = 0
            /\ state.validation_report = Some(Report("REJECTED", reason))
            /\ state.correction_feedback = Some(reason)
            /\ node = "structure_sop"

C7_Witness ==
    /\ log.stage = "validate_sop" /\ log.calls = 0 /\ node = "structure_sop"
    /\ Status(state) = "REJECTED" /\ structRejected

NoUuid(id, at) == [id EXCEPT ![at] = 0]

EraseUuids(doc) ==
    IF ~doc.some THEN doc
    ELSE LET d == doc.v
             pl == Len(pProcess) + 2
             fl == Len(pFlow) + 2
         IN  Some(
             [definitions |-> [id |-> NoUuid(d.definitions.id, Len(pDefinitions) + 2)],
              process |-> [d.process EXCEPT
                  !.id = NoUuid(@, pl),
                  !.flows = [i \in 1..Len(@) |-> [@[i] EXCEPT !.id = NoUuid(@, fl)]]],
              diagram |-> [id |-> NoUuid(d.diagram.id, Len(pBPMNDiagram) + 2)],
              plane |-> [d.plane EXCEPT
                  !.id = NoUuid(@, Len(pBPMNPlane) + 2),
                  !.bpmnElement = NoUuid(@, pl),
                  !.edges = [i \in 1..Len(@) |->
                                [@[i] EXCEPT !.id = NoUuid(@, fl),
                                             !.bpmnElement = NoUuid(@, fl)]]]])

UnderConnected(g, i) ==
    /\ g.nodes[i].type = "gateway"
    /\ Cardinality({k \in 1..Len(g.flows) : g.flows[k].source_id = g.nodes[i].id}) < 2

Audited == log.stage = "validate_sop" /\ state.structured_sop.some

\* C11 as stated: the reason of the rejection names the id of every gateway
\* with fewer than 2 outgoing flows, also when the graph has no flows.
C11_NamesEveryGateway ==
    Audited =>
        LET g == state.structured_sop.v
            reason == state.validation_report.v.reason
        IN  \A i \in 1..Len(g.nodes) :
                UnderConnected(g, i) =>
                    /\ Status(state) = "REJECTED"
                    /\ reason.kind = "gateway" /\ reason.id = g.nodes[i].id

\* C11 amended: a graph with a gateway of fewer than 2 outgoing flows is
\* rejected without a call of the auditor; when the graph has a flow, the
\* reason names the id, the label and the number of outgoing flows of the
\* first such gateway in the order of nodes, and of no other; when the graph
\* has no flow, the reason is that the graph is empty and names no node.
C11_NamesFirstGateway ==
    Audited =>
        LET g == state.structured_sop.v
            reason == state.validation_report.v.reason
        IN  \A i \in 1..Len(g.nodes) :
                (UnderConnected(g, i) /\ \A j \in 1..(i - 1) : ~UnderConnected(g, j)) =>
                    /\ Status(state) = "REJECTED" /\ log.calls = 0
                    /\ state.correction_feedback = Some(reason)
                    /\ IF g.flows = <<>> THEN reason = [kind |-> "empty_graph"]
                       ELSE reason = [kind |-> "gateway", label |-> g.nodes[i].label,
                                      id |-> g.nodes[i].id,
                                      count |-> Cardinality({k \in 1..Len(g.flows) :
                                          g.flows[k].source_id = g.nodes[i].id})]

C11_Witness ==
    /\ Audited /\ Status(state) = "REJECTED"
    /\ LET g == state.structured_sop.v
       IN  /\ Len(g.nodes) = 2 /\ g.flows # <<>>
           /\ UnderConnected(g, 1) /\ UnderConnected(g, 2)
           /\ g.nodes[1].id # g.nodes[2].id
           /\ state.validation_report.v.reason.id = g.nodes[1].id

\* generate_report has run and returned a document
Compiled == log.stage = "generate_report" /\ state.bpmn_xml.some

Elems(q) == {q[i] : i \in 1..Len(q)}
ElemIds(q) == {q[i].id : i \in 1..Len(q)}

\* C12: generate_report returns no document or a consistent one: every
\* sequence flow's sourceRef and targetRef is the id of a node element of the
\* document, every shape's bpmnElement is the id of a node element, every
\* edge's bpmnElement is the id of a sequence flow, and the plane's
\* bpmnElement is the id of the process.
C12_DocumentConsistent ==
    state.bpmn_xml.some =>
        LET d == state.bpmn_xml.v
        IN  /\ \A f \in Elems(d.process.flows) :
                  f.sourceRef \in ElemIds(d.process.nodes)
                  /\ f.targetRef \in ElemIds(d.process.nodes)
            /\ \A sh \in Elems(d.plane.shapes) : sh.bpmnElement \in ElemIds(d.process.nodes)
            /\ \A ed \in Elems(d.plane.edges) : ed.bpmnElement \in ElemIds(d.process.flows)
            /\ d.plane.bpmnElement = d.process.id
            /\ Len(d.plane.shapes) = Len(d.process.nodes)
            /\ Len(d.plane.edges) = Len(d.process.flows)

C12_Witness ==
    /\ Compiled /\ node = "END"
    /\ Len(state.bpmn_xml.v.process.flows) = 6
    /\ Len(state.bpmn_xml.v.plane.edges) = 6

\* every id attribute of the document, one entry per element
AllIds(d) ==
    <<d.definitions.id, d.process.id, d.diagram.id, d.plane.id>>
    \o [i \in 1..Len(d.process.nodes) |-> d.process.nodes[i].id]
    \o [i \in 1..Len(d.process.flows) |-> d.process.flows[i].id]
    \o [i \in 1..Len(d.plane.shapes) |-> d.plane.shapes[i].id]
    \o [i \in 1..Len(d.plane.edges) |-> d.plane.edges[i].id]

\* C13: in every document generate_report returns the ids of all elements
\* (definitions, process, diagram, plane, node elements, sequence flows, shapes,
\* edges) are pairwise distinct.
C13_IdsDistinct ==
    state.bpmn_xml.some =>
        LET ids == AllIds(state.bpmn_xml.v)
        IN  \A i, j \in 1..Len(ids) : i # j => ids[i] # ids[j]

\* The entity references of XML and the character each stands for.
Entities ==
    {[ref |-> <<38, 97, 109, 112, 59>>, c |-> <<38>>],
     [ref |-> <<38, 108, 116, 59>>, c |-> <<60>>],
     [ref |-> <<38, 103, 116, 59>>, c |-> <<62>>],
     [ref |-> <<38, 113, 117, 111, 116, 59>>, c |-> <<34>>],
     [ref |-> <<38, 97, 112, 111, 115, 59>>, c |-> <<39>>],
     [ref |-> <<38, 35, 51, 57, 59>>, c |-> <<39>>]}

StartsWith(t, p) == Len(t) >= Len(p) /\ SubSeq(t, 1, Len(p)) = p

\* What an XML parser reads from a written attribute value: each entity
\* reference replaced by its character, once.
RECURSIVE XmlUnescape(_)
XmlUnescape(t) ==
    IF t = <<>> THEN <<>>
    ELSE IF \E e \in Entities : StartsWith(t, e.ref)
    THEN LET e == CHOOSE e \in Entities : StartsWith(t, e.ref)
         IN  e.c \o XmlUnescape(SubSeq(t, Len(e.ref) + 1, Len(t)))
    ELSE <<Head(t)>> \o XmlUnescape(Tail(t))

\* t holds none of the five special characters other than in entity references
RECURSIVE EscapedText(_)
EscapedText(t) ==
    IF t = <<>> THEN TRUE
    ELSE IF \E e \in Entities : StartsWith(t, e.ref)
    THEN LET e == CHOOSE e \in Entities : StartsWith(t, e.ref)
         IN  EscapedText(SubSeq(t, Len(e.ref) + 1, Len(t)))
    ELSE Head(t) \notin {38, 60, 62, 34, 39} /\ EscapedText(Tail(t))

\* the label of the node with this id
LabelOf(g, id) == (CHOOSE n \in Elems(g.nodes) : n.id = id /\ \A m \in Elems(g.nodes) :
                        m.id = id => m = n).label

UniqueIds(g) == \A i, j \in 1..Len(g.nodes) : i # j => g.nodes[i].id # g.nodes[j].id

\* C14: the name written into the document for a node, for the process and
\* for a flow with a condition reads back as the label, the title and the
\* condition; the label "A & B <done>" is written "A &amp; B &lt;done&gt;".
C14_NameReadsBack ==
    (Compiled /\ UniqueIds(state.structured_sop.v)) =>
        LET d == state.bpmn_xml.v
            g == state.structured_sop.v
        IN  /\ XmlUnescape(escape_attrib(d.process.name)) = g.titre
            /\ \A el \in Elems(d.process.nodes) :
                  /\ XmlUnescape(escape_attrib(el.name)) = LabelOf(g, el.id)
                  /\ LabelOf(g, el.id) = tLabelAmp =>
                        escape_attrib(el.name) =
                            <<65, 32, 38, 97, 109, 112, 59, 32, 66, 32,
                              38, 108, 116, 59, 100, 111, 110, 101, 38, 103, 116, 59>>
            /\ \A i \in 1..Len(d.process.flows) :
                  d.process.flows[i].name.some =>
                      XmlUnescape(escape_attrib(d.process.flows[i].name.v))
                          = g.flows[i].condition.v

\* C15: the title, every node label and every flow condition is inserted
\* into the document with every ampersand, less-than, greater-than, double
\* quote and apostrophe escaped.
C15_FiveCharactersEscaped ==
    Compiled =>
        LET d == state.bpmn_xml.v
        IN  /\ EscapedText(d.process.name)
            /\ \A el \in Elems(d.process.nodes) : EscapedText(el.name)
            /\ \A f \in Elems(d.process.flows) : f.name.some => EscapedText(f.name.v)

\* generate_report has run on a graph with a SUCCESS report
Engineered ==
    /\ log.stage = "generate_report"
    /\ Status(state) = "SUCCESS"
    /\ state.structured_sop.some

IdsOf(g) == {g.nodes[i].id : i \in 1..Len(g.nodes)}
Starts(g) == {i \in 1..Len(g.nodes) : g.nodes[i].type = "startEvent"}

\* the ids reached from the ids of S along the flows
RECURSIVE ReachFrom(_, _)
ReachFrom(g, S) ==
    LET T == S \cup {f.target_id : f \in {x \in Elems(g.flows) : x.source_id \in S}}
    IN  IF T = S THEN S ELSE ReachFrom(g, T)

\* the ids reachable from the first start node
Reach(g) ==
    IF Starts(g) = {} THEN {}
    ELSE ReachFrom(g, {g.nodes[CHOOSE i \in Starts(g) : \A j \in Starts(g) : i <= j].id})

EndpointsAreNodes(g) ==
    \A f \in Elems(g.flows) : f.source_id \in IdsOf(g) /\ f.target_id \in IdsOf(g)

TagOfKind(k) ==
    CASE k = "startEvent" -> "bpmn:startEvent"
      [] k = "endEvent" -> "bpmn:endEvent"
      [] k = "task" -> "bpmn:userTask"
      [] k = "gateway" -> "bpmn:exclusiveGateway"

Distinct(q) == \A i, j \in 1..Len(q) : i # j => q[i] # q[j]

BoundsOf(d, id) == (CHOOSE sh \in Elems(d.plane.shapes) : sh.bpmnElement = id).bounds
MiddleY(d, id) == BoundsOf(d, id).y + BoundsOf(d, id).height \div 2

Abs(n) == IF n < 0 THEN -n ELSE n

\* start -> task -> gateway -> {b by "Oui", c by "Non"} -> end has been compiled
BranchCompiled ==
    /\ Compiled
    /\ state.structured_sop.v \in {GraphE2E, GraphE2ESwapped}

\* C17 as stated: the y written for each branch node is the gateway's y plus
\* or minus the vertical gap, the two being symmetric about the gateway's y.
C17_OffsetByGap ==
    BranchCompiled =>
        LET d == state.bpmn_xml.v
        IN  /\ BoundsOf(d, tB).y + BoundsOf(d, tC).y = 2 * BoundsOf(d, tG).y
            /\ Abs(BoundsOf(d, tB).y - BoundsOf(d, tG).y) = Y_GAP
            /\ Abs(BoundsOf(d, tC).y - BoundsOf(d, tG).y) = Y_GAP

\* C17 amended: the horizontal middle lines of the two branch shapes are
\* symmetric about the middle line of the gateway's shape, each half the
\* vertical gap away from it, "Non" above and "Oui" below whatever the order
\* of the two flows in the graph; the y written for the two branch nodes
\* therefore differ by the vertical gap.
C17_SymmetricHalfGap ==
    BranchCompiled =>
        LET d == state.bpmn_xml.v
        IN  /\ MiddleY(d, tB) + MiddleY(d, tC) = 2 * MiddleY(d, tG)
            /\ MiddleY(d, tC) = MiddleY(d, tG) - Y_GAP \div 2
            /\ MiddleY(d, tB) = MiddleY(d, tG) + Y_GAP \div 2
            /\ BoundsOf(d, tB).y - BoundsOf(d, tC).y = Y_GAP

C17_Witness ==
    /\ BranchCompiled /\ state.structured_sop.v = GraphE2ESwapped
    /\ BoundsOf(state.bpmn_xml.v, tC).y < BoundsOf(state.bpmn_xml.v, tB).y

\* C18: when the accepted graph has no startEvent node, generate_report
\* returns no document; and whatever generate_report returns, the run is at
\* END after it, with no further try and no way back to structure_sop.
C18_NoStartNoDocument ==
    log.stage = "generate_report" =>
        /\ node = "END"
        /\ attempt = 0
        /\ (state.structured_sop.some /\ Starts(state.structured_sop.v) = {})
              => ~state.bpmn_xml.some
        /\ ~ENABLED Next

C18_Witness ==
    /\ log.stage = "generate_report" /\ node = "END"
    /\ Status(state) = "SUCCESS" /\ accepted = state.structured_sop
    /\ Starts(state.structured_sop.v) = {}
    /\ ~state.bpmn_xml.some

\* the ids layout gives a placement to
Placed(g) == Reach(g) \cap IdsOf(g)

UnplacedFlows(g) ==
    {f \in Elems(g.flows) : f.source_id \notin Placed(g) \/ f.target_id \notin Placed(g)}

\* C19: when a flow of the graph has a source id or a target id without a
\* placement (an id that is no node of the graph, or a node not reachable
\* from the start node), generate_report returns no document.
C19_UnplacedEndpointFails ==
    (Engineered /\ UnplacedFlows(state.structured_sop.v) # {}) => ~state.bpmn_xml.some

C19_Witness ==
    /\ Engineered /\ node = "END" /\ ~state.bpmn_xml.some
    /\ Starts(state.structured_sop.v) # {}
    /\ EndpointsAreNodes(state.structured_sop.v)
    /\ \E f \in Elems(state.structured_sop.v.flows) :
          f.source_id \notin Reach(state.structured_sop.v)

\* the nodes of g that cannot be reached from the start node
Unreachable(g) == IdsOf(g) \ Reach(g)

\* a graph with a start node whose flows all join nodes of the graph
Connectable(g) == Starts(g) # {} /\ EndpointsAreNodes(g)

\* C20 as stated: a node that cannot be reached from the start node is left
\* out of the document and does not make the compilation fail.
C20_UnreachableNeverFails ==
    (Engineered /\ Connectable(state.structured_sop.v)
        /\ Unreachable(state.structured_sop.v) # {}) =>
        /\ state.bpmn_xml.some
        /\ \A id \in Unreachable(state.structured_sop.v) :
              id \notin ElemIds(state.bpmn_xml.v.process.nodes)

\* C20 amended: a node that cannot be reached from the start node has no node
\* element and no shape in any document returned; in a graph with a start
\* node whose flows all join nodes of the graph, a document is returned
\* exactly when no unreachable node is the source of a flow.
C20_UnreachableOmittedOrFails ==
    Engineered =>
        LET g == state.structured_sop.v
        IN  /\ state.bpmn_xml.some =>
                  \A id \in Unreachable(g) :
                      /\ id \notin ElemIds(state.bpmn_xml.v.process.nodes)
                      /\ \A sh \in Elems(state.bpmn_xml.v.plane.shapes) : sh.bpmnElement # id
            /\ Connectable(g) =>
                  (state.bpmn_xml.some <=>
                      \A f \in Elems(g.flows) : f.source_id \notin Unreachable(g))

C20_Witness ==
    /\ Compiled /\ node = "END"
    /\ Connectable(state.structured_sop.v)
    /\ Unreachable(state.structured_sop.v) # {}
    /\ \E id \in Reach(state.structured_sop.v) :
          id \in ElemIds(state.bpmn_xml.v.process.nodes)

LayoutOver == node \in {"layout_done", "layout_failed"}

\* C21: the layout loop ends on every graph, cycles and shared targets
\* included; the placements only grow; at most 1 + the number of flows entries
\* are ever put on the queue; no id is placed twice, and when the loop ends
\* every node reachable from the start node has its placement.
C21_LayoutTerminates ==
    /\ <>LayoutOver
    /\ [](LET g == state.structured_sop.v
          IN  /\ pushed <= 1 + Len(g.flows)
              /\ Distinct([i \in 1..Len(visited_coords) |-> visited_coords[i].id])
              /\ VisitedIds(visited_coords) \subseteq Reach(g)
              /\ node = "layout_done" => VisitedIds(visited_coords) = Reach(g)
              /\ (node = "layout_failed" /\ Starts(g) # {}) => ~EndpointsAreNodes(g))
    /\ [][/\ Len(visited_coords') >= Len(visited_coords)
          /\ SubSeq(visited_coords', 1, Len(visited_coords)) = visited_coords]_vars

\* a cycle g -> a -> g has been walked, a being the target of two flows
C21_Witness ==
    /\ node = "layout_done"
    /\ pushed = 1 + Len(state.structured_sop.v.flows)
    /\ Len(visited_coords) = 3
    /\ \E f \in Elems(state.structured_sop.v.flows) :
          f.source_id = tG /\ f.target_id = tA

\* C22: a run starts in clarification; structure_sop is entered only from
\* clarification after a valid description or from validate_sop after a
\* rejection; validate_sop only from structure_sop after a valid graph;
\* generate_report only from validate_sop after a SUCCESS report; after
\* generate_report the run is at END, and once a run has ended (END or an
\* uncaught exception) nothing runs any more.
C22_StageOrder ==
    /\ node = "clarification"
    /\ [][/\ node \in Stages \cup {"generate_report"}
          /\ node' \in Stages \cup {"generate_report", "END", "crashed"}
          /\ log'.stage = node
          /\ (node' = "structure_sop" /\ node # "structure_sop") =>
                \/ node = "clarification" /\ log'.last = "WellFormed"
                     /\ Truthy(state'.general_response)
                \/ node = "validate_sop" /\ Status(state') = "REJECTED"
          /\ (node' = "validate_sop" /\ node # "validate_sop") =>
                /\ node = "structure_sop" /\ log'.last = "WellFormed"
                /\ state'.structured_sop = lastGen'
          /\ node' = "generate_report" =>
                /\ node = "validate_sop" /\ Status(state') = "SUCCESS"
                /\ log'.last = "WellFormed" /\ ~state.bpmn_xml.some
          /\ node' = "clarification" => node = "clarification"
          /\ node = "generate_report" => node' = "END"
         ]_vars

C22_Witness ==
    /\ node = "END" /\ log.stage = "generate_report"
    /\ rejects = 1 /\ structRejected /\ entries = 2

\* the failure reasons found in a state
ReasonsIn(st) ==
    (IF st.general_response.some THEN {st.general_response.v} ELSE {})
    \cup (IF st.validation_report.some THEN {st.validation_report.v.reason} ELSE {})
    \cup (IF st.correction_feedback.some THEN {st.correction_feedback.v} ELSE {})

KindOfError(exc) == IF exc = "RuntimeError" THEN "CallError" ELSE "FormatError"

\* the run has ended with end_with_error after the last try of a stage failed
Exhausted ==
    /\ node = "END" /\ state.next_action = Some("end_with_error")
    /\ log.stage \in Stages /\ log.last \in Failure

\* C23: when a run ends because a stage has used up its tries, the final
\* state holds a reason carrying the error of the last try of that stage, and
\* no rejection left over from an earlier correction cycle.
C23_LastReasonCarried ==
    Exhausted =>
        /\ \E r \in ReasonsIn(state) :
              "error" \in DOMAIN r /\ KindOfError(r.error) = log.last
        /\ log.stage # "validate_sop" =>
              (Status(state) # "REJECTED" /\ ~state.correction_feedback.some)

\* the state is one in which Validate has just sent the run back to Structure
EnteredFromValidate == node = "structure_sop" /\ log.stage = "validate_sop"

\* C24: whenever Structure is entered from Validate, correction_feedback is a
\* non-empty string equal to the reason of the REJECTED report just produced
\* (at least 10 characters when the auditor rejected); every call Structure
\* then makes sends a correction prompt holding that feedback and the rejected
\* graph; and correction_feedback is None once Structure has succeeded or
\* Validate has reported SUCCESS.
C24_FeedbackCarried ==
    /\ [](/\ EnteredFromValidate =>
                /\ Status(state) = "REJECTED"
                /\ state.correction_feedback = Some(state.validation_report.v.reason)
                /\ Truthy(state.correction_feedback)
                /\ state.correction_feedback.v.kind = "audit" =>
                      state.correction_feedback.v.len >= MinReasonLen
          /\ (log.stage = "structure_sop" /\ node = "validate_sop") =>
                state.correction_feedback = None
          /\ (log.stage = "validate_sop" /\ Status(state) = "SUCCESS") =>
                state.correction_feedback = None)
    /\ [][(node = "structure_sop" /\ rejects > 0 /\ log'.stage = "structure_sop"
               /\ log'.calls >= 1) =>
             /\ state.structured_sop.some
             /\ prompt' = Some([mode |-> "correction",
                                feedback |-> Some(state.validation_report.v.reason),
                                failed_graph |-> state.structured_sop,
                                text |-> state.general_response])]_vars

C24_Witness ==
    /\ log.stage = "structure_sop" /\ node = "validate_sop"
    /\ rejects > 0 /\ ~structRejected
    /\ prompt.some /\ prompt.v.mode = "correction"
    /\ prompt.v.feedback.v.kind = "audit"
    /\ prompt.v.failed_graph.some /\ prompt.v.failed_graph # state.structured_sop
    /\ state.correction_feedback = None

\* C25: only structure_sop changes the stored graph, and it replaces it by the
\* graph the generator has just returned (or by None when it gives up);
\* clarification, validate_sop and generate_report leave it as it was for
\* every outcome, and generate_report also leaves the validation report as it
\* was.
C25_GraphChangedOnlyByStructure ==
    [][/\ node # "structure_sop" => state'.structured_sop = state.structured_sop
       /\ node = "generate_report" => state'.validation_report = state.validation_report
       /\ state'.structured_sop # state.structured_sop =>
             /\ log'.stage = "structure_sop"
             /\ \/ state'.structured_sop = None
                \/ /\ log'.last = "WellFormed"
                   /\ state'.structured_sop = lastGen']_vars

C25_Witness ==
    /\ node = "END" /\ log.stage = "generate_report" /\ state.bpmn_xml.some
    /\ rejects >= 1 /\ entries >= 2
    /\ lastGen.some /\ state.structured_sop = lastGen /\ accepted = lastGen
    /\ Status(state) = "SUCCESS"

FirstBlock(text) ==
    LET opens == Positions(text, LB)
        first == SetMin(opens)
        Balanced(i) == Cardinality({k \in first..i : text[k] = LB})
                          = Cardinality({k \in first..i : text[k] = RB})
        closes == {i \in Positions(text, RB) : i > first /\ Balanced(i)}
    IN  IF opens = {} \/ closes = {} THEN None
        ELSE Some(SubSeq(text, first, SetMin(closes)))

\* C27: for every raw text the GraphGenerator or the SemanticAuditor may
\* return, the call yields the object of the first well-formed brace-delimited
\* block of the text when that block parses against the schema, also when
\* text with braces follows the block, and is a FormatError otherwise.
C27_FirstBlockExtracted ==
    /\ node = "structure_sop" =>
          \A r \in GraphResponses : ~r.err =>
              LET b == FirstBlock(r.text)
                  res == generate_and_validate_process_graph(r)
              IN  IF b.some /\ JsonParse(b.v).some /\ ProcessGraphValid(JsonParse(b.v).v)
                  THEN res = Value(JsonParse(b.v).v)
                  ELSE res = Raise("InvalidProcessGraphError")
    /\ node = "validate_sop" =>
          \A r \in AuditResponses : ~r.err =>
              LET b == FirstBlock(r.text)
                  res == get_llm_audit(r)
              IN  IF b.some /\ JsonParse(b.v).some /\ AuditResultValid(JsonParse(b.v).v)
                  THEN res = Value(JsonParse(b.v).v)
                  ELSE res = Raise("InvalidAuditResponseError")

\* C28: every coordinate written to the document is written as an integer:
\* the x, y, width and height of every Bounds and the x and y of every
\* waypoint, also below a gateway, where positions come from half-steps.
C28_CoordinatesAreIntegers ==
    state.bpmn_xml.some =>
        LET d == state.bpmn_xml.v
        IN  /\ \A sh \in Elems(d.plane.shapes) :
                  /\ sh.bounds.x \in Int /\ sh.bounds.y \in Int
                  /\ sh.bounds.width \in Int /\ sh.bounds.height \in Int
            /\ \A e \in Elems(d.plane.edges) :
                  \A k \in 1..Len(e.waypoints) :
                      ~e.waypoints[k].x.fl /\ ~e.waypoints[k].y.fl

\* C29: the code validator checks in a fixed order and stops at the first
\* failure: a graph whose nodes or flows are empty is rejected as an empty
\* graph, naming no node, whatever gateways it has; otherwise the rejection
\* names the first gateway, in the order of nodes, with fewer than 2 outgoing
\* flows, with the number of its outgoing flows; a graph with no such gateway
\* passes and goes to the auditor.
C29_ChecksInOrder ==
    Audited =>
        LET g == state.structured_sop.v
            bad == {i \in 1..Len(g.nodes) : UnderConnected(g, i)}
        IN  IF g.nodes = <<>> \/ g.flows = <<>>
            THEN /\ Status(state) = "REJECTED" /\ log.calls = 0
                 /\ state.validation_report.v.reason = [kind |-> "empty_graph"]
            ELSE IF bad # {}
            THEN /\ Status(state) = "REJECTED" /\ log.calls = 0
                 /\ state.validation_report.v.reason.kind = "gateway"
                 /\ state.validation_report.v.reason.id = g.nodes[SetMin(bad)].id
                 /\ state.validation_report.v.reason.count =
                       Cardinality(Outgoing(g.flows, g.nodes[SetMin(bad)].id))
            ELSE /\ log.calls >= 1
                 /\ Status(state) = "REJECTED" =>
                       state.validation_report.v.reason.kind = "audit"

C29_Witness ==
    /\ Audited /\ Status(state) = "REJECTED"
    /\ LET g == state.structured_sop.v
       IN  /\ g.flows = <<>> /\ g.nodes # <<>>
           /\ UnderConnected(g, 1)
           /\ state.validation_report.v.reason = [kind |-> "empty_graph"]

\* the text a flow is sorted by: its condition, or "" when it has none
KeyOf(f) == IF f.condition.some THEN f.condition.v ELSE <<>>

\* the place of flow k of g among the outgoing flows of its source: after the
\* flows of a smaller condition and the earlier flows of an equal one
Rank(g, k) ==
    1 + Cardinality({m \in 1..Len(g.flows) :
            /\ g.flows[m].source_id = g.flows[k].source_id
            /\ \/ StrLess(KeyOf(g.flows[m]), KeyOf(g.flows[k]))
               \/ KeyOf(g.flows[m]) = KeyOf(g.flows[k]) /\ m < k})

\* C30: when the layout loop places a node, the children it puts on the queue
\* are the targets of the node's outgoing flows sorted by condition ascending,
\* a missing or empty condition first and flows of equal conditions in their
\* order in flows; the y of the child at index i is the node's y for a node
\* that is no gateway and y + (i - (k - 1) / 2) * Y_GAP for a gateway, so the
\* index and the position of every child follow from the graph alone.
C30_ChildrenSortedByCondition ==
    [][(/\ node = "layout_loop" /\ node' = "layout_loop" /\ queue # <<>>
        /\ Head(queue).id \notin VisitedIds(visited_coords)) =>
          LET g == state.structured_sop.v
              e == Head(queue)
              out == {k \in 1..Len(g.flows) : g.flows[k].source_id = e.id}
              n == Cardinality(out)
              kids == SubSeq(queue', Len(queue), Len(queue'))
              is_gateway == nodes_by_id(g, e.id).type = "gateway"
          IN  /\ Len(kids) = n
              /\ \A k \in out :
                    /\ kids[Rank(g, k)].id = g.flows[k].target_id
                    /\ kids[Rank(g, k)].y.v =
                          IF is_gateway
                          THEN e.y.v + ((2 * (Rank(g, k) - 1) - (n - 1)) * Y_GAP) \div 2
                          ELSE e.y.v
                    /\ KeyOf(g.flows[k]) = <<>> =>
                          Rank(g, k) <= Cardinality({m \in out : KeyOf(g.flows[m]) = <<>>})]_vars

\* the gateway of GraphSortKeys has been placed: its children wait in the
\* order a (no condition), c (""), e ("Non"), b ("Oui")
C30_Witness ==
    /\ node = "layout_loop"
    /\ state.structured_sop.v = GraphSortKeys
    /\ Len(visited_coords) = 2
    /\ [i \in 1..Len(queue) |-> queue[i].id] = <<tA, tC, tE, tB>>
    /\ [i \in 1..Len(queue) |-> queue[i].y.v] = <<70, 190, 310, 430>>

\* the loop takes one pass and goes on
PassTaken == node = "layout_loop" /\ node' = "layout_loop" /\ queue # <<>>

\* C31: the entry popped is the one that has waited longest; when its id has
\* no placement yet, the placement x, y - height/2, width, height is recorded
\* for it, width and height being 36x36 for a start or end event, 100x80 for
\* a task and 50x50 for a gateway; when its id has a placement, the entry is
\* discarded; and no pass changes a placement that was recorded before.
C31_PlacedOnFirstPop ==
    [][PassTaken =>
          LET g == state.structured_sop.v
              e == Head(queue)
              type == nodes_by_id(g, e.id).type
              w == IF type = "task" THEN 100 ELSE IF type = "gateway" THEN 50 ELSE 36
              h == IF type = "task" THEN 80 ELSE IF type = "gateway" THEN 50 ELSE 36
          IN  /\ SubSeq(queue', 1, Len(queue) - 1) = Tail(queue)
              /\ SubSeq(visited_coords', 1, Len(visited_coords)) = visited_coords
              /\ IF e.id \in VisitedIds(visited_coords)
                 THEN visited_coords' = visited_coords /\ queue' = Tail(queue)
                 ELSE /\ Len(visited_coords') = Len(visited_coords) + 1
                      /\ visited_coords'[Len(visited_coords')].id = e.id
                      /\ LET c == visited_coords'[Len(visited_coords')].c
                         IN  /\ c.x = e.x /\ 2 * c.y.v = 2 * e.y.v - h
                             /\ c.width = w /\ c.height = h]_vars

\* the end event of GraphE2E was put on the queue by c at y 190 and then by b
\* at y 310: it stands where the first entry put it, the second was discarded
C31_Witness ==
    /\ node = "layout_done"
    /\ state.structured_sop.v = GraphE2E
    /\ pushed = Len(visited_coords) + 1
    /\ Coords(visited_coords, tE).y.v = 172
    /\ Coords(visited_coords, tE).height = 36

\* C32: when a node is placed from the entry (x, y), each of its k children
\* is put on the queue at x + width + X_GAP; the children of a gateway get
\* y + (i - (k - 1) / 2) * Y_GAP for i = 0 .. k - 1, so that consecutive
\* children are Y_GAP apart and their y values are centred on y; the children
\* of any other node all get y.
C32_ChildrenSpread ==
    [][(PassTaken /\ Head(queue).id \notin VisitedIds(visited_coords)) =>
          LET g == state.structured_sop.v
              e == Head(queue)
              placed == visited_coords'[Len(visited_coords')].c
              kids == SubSeq(queue', Len(queue), Len(queue'))
              k == Len(kids)
          IN  /\ k = Cardinality({m \in 1..Len(g.flows) : g.flows[m].source_id = e.id})
              /\ \A i \in 1..k : kids[i].x = e.x + placed.width + X_GAP
              /\ IF nodes_by_id(g, e.id).type = "gateway"
                 THEN /\ \A i \in 1..k :
                            2 * kids[i].y.v = 2 * e.y.v + (2 * (i - 1) - (k - 1)) * Y_GAP
                      /\ \A i \in 1..(k - 1) : kids[i + 1].y.v - kids[i].y.v = Y_GAP
                      /\ \A i \in 1..k : kids[i].y.v + kids[k + 1 - i].y.v = 2 * e.y.v
                 ELSE \A i \in 1..k : kids[i].y = e.y]_vars

\* the gateway of GraphSortTies, placed from (306, 250), has put its three
\* children on the queue at x 476 and y 130, 250, 370
C32_Witness ==
    /\ node = "layout_loop"
    /\ state.structured_sop.v = GraphSortTies
    /\ Len(visited_coords) = 2 /\ Len(queue) = 3
    /\ \A i \in 1..3 : queue[i].x = 476 /\ queue[i].y.v = 130 + (i - 1) * 120

\* the edge of flow i of the compiled graph runs from the right-centre of its
\* source to the left-centre of its target, straight when the two are at one
\* height and else by two waypoints at start x + X_GAP / 2
EdgeRouted(i) ==
    LET d == state.bpmn_xml.v
        f == state.structured_sop.v.flows[i]
        wp == d.plane.edges[i].waypoints
        s == BoundsOf(d, f.source_id)
        t == BoundsOf(d, f.target_id)
        start_y == s.y + s.height \div 2
        end_y == t.y + t.height \div 2
        x_mid == s.x + s.width + X_GAP \div 2
    IN  /\ wp[1].x.v = s.x + s.width /\ wp[1].y.v = start_y
        /\ wp[Len(wp)].x.v = t.x /\ wp[Len(wp)].y.v = end_y
        /\ IF start_y = end_y THEN Len(wp) = 2
           ELSE /\ Len(wp) = 4
                /\ wp[2].x.v = x_mid /\ wp[2].y.v = start_y
                /\ wp[3].x.v = x_mid /\ wp[3].y.v = end_y

\* the edge of flow i has intermediate waypoints
Bent(i) == Len(state.bpmn_xml.v.plane.edges[i].waypoints) = 4

\* x_mid of the edge of flow i is half way between the right edge of its
\* source and the left edge of its target
MidwayBetween(i) ==
    LET d == state.bpmn_xml.v
        f == state.structured_sop.v.flows[i]
        s == BoundsOf(d, f.source_id)
        t == BoundsOf(d, f.target_id)
    IN  2 * (s.x + s.width + X_GAP \div 2) = (s.x + s.width) + t.x

\* flow i is the only flow of the graph into its target, which is no start node
OnlyWayIn(g, i) ==
    /\ start_node_id(g) # Some(g.flows[i].target_id)
    /\ \A m \in 1..Len(g.flows) : g.flows[m].target_id = g.flows[i].target_id => m = i

C34_AuditorTwoTries ==
    log.stage = "validate_sop" =>
        /\ log.calls <= 2
        /\ (log.last \in Failure /\ log.calls = 1) =>
              (node = "validate_sop" /\ attempt = 1)
        /\ log.last = "WellFormed" =>
              /\ Status(state) \in {"SUCCESS", "REJECTED"}
              /\ state.validation_report.v.reason.kind = "audit"
              /\ node = IF Status(state) = "SUCCESS" THEN "generate_report" ELSE "structure_sop"
              /\ Status(state) = "SUCCESS" => accepted = state.structured_sop
        /\ (log.last \in Failure /\ log.calls = 2) =>
              /\ Status(state) = "FAILURE"
              /\ node = "END"
              /\ state.next_action = Some("end_with_error")
              /\ ~state.bpmn_xml.some

C34_Witness ==
    /\ log.stage = "validate_sop" /\ log.calls = 2 /\ log.last = "WellFormed"
    /\ Status(state) = "SUCCESS" /\ node = "generate_report"

\* the signals each stage may return
SignalsOf(stage) ==
    CASE stage = "clarification" -> {"structure_sop", "end_with_error"}
      [] stage = "structure_sop" -> {"validate_sop", "end_with_error"}
      [] stage = "validate_sop" -> {"generate_report", "structure_sop", "end_with_error"}

\* C35: when clarification, structure_sop or validate_sop returns, the signal
\* it has written is one of its own (structure_sop or end_with_error;
\* validate_sop or end_with_error; generate_report, structure_sop or
\* end_with_error), end_with_error takes the run to END and any other signal
\* to the node of that name; the router is never handed a signal its table
\* does not hold: a run is only ever broken off by an exception of a failed
\* call, which leaves the state as it was.
C35_SignalsInTable ==
    [][/\ (node \in {"clarification", "structure_sop", "validate_sop"}
              /\ node' \notin {node, "crashed"}) =>
             /\ state'.next_action.some
             /\ state'.next_action.v \in SignalsOf(node)
             /\ node' = IF state'.next_action.v = "end_with_error" THEN "END"
                        ELSE state'.next_action.v
       /\ node' = "crashed" => (state' = state /\ log'.last \in Failure)]_vars

C35_Witness ==
    /\ node = "END" /\ log.stage = "validate_sop"
    /\ state.next_action = Some("end_with_error")
    /\ rejects >= 1 /\ entries >= 2

\* two characters are the same letter, capital or small, or the same character
SameLetter(a, b) ==
    \/ a = b
    \/ /\ Abs(a - b) = 32
       /\ Min(a, b) \in (65..90) \cup ((192..222) \ {215})

\* the text holds one of the listed refusal phrases, in whatever case
HoldsRefusal(t) ==
    \E phrase \in refusal_phrases :
        \E i \in 0..(Len(t) - Len(phrase)) :
            \A k \in 1..Len(phrase) : SameLetter(t[i + k], phrase[k])

\* C36: the description clarification hands to structure_sop has at least 20
\* characters and holds none of the listed refusal phrases, in whatever case
\* they are written; an answer failing either test is a failed try, followed
\* by another try or, when it was the third, by the end of the run; the
\* TextGenerator is called at most 3 times in a run; and whenever
\* structure_sop or a later node is entered the stored description is not
\* empty.
C36_DescriptionChecked ==
    /\ log.stage = "clarification" => log.calls <= 3
    /\ entries > 0 => node # "clarification"
    /\ node = "clarification" =>
          \A r \in TextResponses : ~r.err =>
              LET out == clarification_agent(state, attempt, r)
              IN  IF r.text.len >= 20 /\ ~HoldsRefusal(r.text.excerpt)
                  THEN out = Update([general_response |-> Some(r.text),
                                     next_action |-> Some("structure_sop")], TRUE)
                  ELSE IF attempt < 2 THEN out = Again
                  ELSE /\ out.kind = "update"
                       /\ out.upd.next_action = Some("end_with_error")
    /\ node \in {"structure_sop", "validate_sop", "generate_report"} =>
          /\ state.general_response.some
          /\ state.general_response.v.kind = "description"
          /\ state.general_response.v.len >= 20
          /\ ~HoldsRefusal(state.general_response.v.excerpt)

C36_Witness ==
    /\ log = [stage |-> "clarification", calls |-> 3, last |-> "WellFormed"]
    /\ node = "structure_sop"
    /\ state.general_response.v.len = 20

====
